---- MODULE Spec2Model ----
(***************************************************************************)
(* A model of src/src/lib/proto-loader.ts: the grpc-web call of            *)
(* executeCall (framing, response parsing, trailers), alone and in         *)
(* several invocations at once, the field introspection of extractFields,  *)
(* the default-value synthesis of createDefaultValue / createEmptyRequest  *)
(* and the loading of source units by loadProtoFiles; and of the method    *)
(* panel of src/unnamed/part_000 (MethodPanel and the method cache of App). *)
(*                                                                         *)
(* Strings are sequences of character codes, byte buffers are sequences    *)
(* of 0..255.  An optional value (null / undefined in the source) is a     *)
(* sequence of length 0 or 1.                                              *)
(***************************************************************************)
EXTENDS Integers, Sequences, FiniteSets, TLC

VARIABLES
  pc,         \* position of the call: "idle", "fetch", "body", "done"
  request,    \* optional: the request value given to executeCall
  frame,      \* optional: the grpc-web frame handed to fetch
  resp,       \* optional: the resolved fetch Response (ok, status, headers)
  served,     \* optional: the response the server wrote (its frames)
  body,       \* optional: the bytes read from the response body
  decodeArg,  \* optional: the bytes handed to method.outputType.decode
  result,     \* optional: the CallResult returned
  schema,     \* the resolved declarations of the loaded registry
  root,       \* the input message type of the method at hand
  stack,      \* call stack of createDefaultValue
  ret,        \* optional: the value returned by the innermost finished call
  calls,      \* number of createDefaultValue calls made
  payload,    \* frame round trip: the payload to frame
  wire,       \* frame round trip: optional framed bytes
  extracted,  \* frame round trip: optional message bytes read back
  fieldMetas, \* introspection: optional result of extractFields
  protoContents, \* loadProtoFiles: the source units given
  lroot,         \* loadProtoFiles: the protobuf Root being filled
  unitIx,        \* loadProtoFiles: index of the unit the loop is at
  warnings,      \* loadProtoFiles: filenames console.warn reported
  loadResult,    \* loadProtoFiles: optional LoadResult returned
  invocations,   \* concurrent calls: the locals of each executeCall invocation
  tokens,        \* concurrent calls: the callers whose cancellation token is triggered
  selectedMethod, \* App: optional key of the method whose panel is mounted
  methodCache,    \* App: the MethodCache entries by method key
  jsonText,       \* MethodPanel: the text of the request editor
  panelResult,    \* MethodPanel: optional CallResult shown (the state `result`)
  loading,        \* MethodPanel: a call is in flight
  executing       \* MethodPanel: optional closure of the handleExecute at its await

callVars == <<pc, request, frame, resp, served, body, decodeArg, result>>
synthVars == <<schema, root, stack, ret, calls>>
frameVars == <<payload, wire, extracted>>
fieldVars == <<fieldMetas>>
loadVars == <<protoContents, lroot, unitIx, warnings, loadResult>>
concVars == <<invocations, tokens>>
panelVars == <<selectedMethod, methodCache, jsonText, panelResult, loading, executing>>
vars == <<callVars, synthVars, frameVars, fieldVars, loadVars, concVars, panelVars>>

None == <<>>
Some(x) == <<x>>

Max(a, b) == IF a > b THEN a ELSE b
Min(a, b) == IF a < b THEN a ELSE b

(***************************************************************************)
(* Strings                                                                 *)
(***************************************************************************)
StartsWith(s, p) == Len(s) >= Len(p) /\ SubSeq(s, 1, Len(p)) = p

\* String.prototype.includes
Includes(s, p) == \E i \in 1..(Len(s) - Len(p) + 1) : SubSeq(s, i, i + Len(p) - 1) = p

\* the decimal text of a non-negative integer, as a template literal prints it
RECURSIVE Decimal(_)
Decimal(n) == IF n < 10 THEN <<48 + n>> ELSE Decimal(n \div 10) \o <<48 + (n % 10)>>

IsDigit(c) == c \in 48..57
\* the characters the regular-expression class \s matches
IsSpace(c) == c \in {9, 10, 11, 12, 13, 32, 160, 5760, 8232, 8233, 8239, 8287, 12288, 65279} \cup (8192..8202)
IsLineEnd(c) == c \in {10, 13}

\* the index of the first character at or after i that is no white space
\* (Len(s) + 1 if there is none): what a greedy \s* consumes
RECURSIVE SkipSpace(_, _)
SkipSpace(s, i) == IF i <= Len(s) /\ IsSpace(s[i]) THEN SkipSpace(s, i + 1) ELSE i

\* likewise for a greedy \d*
RECURSIVE SkipDigits(_, _)
SkipDigits(s, i) == IF i <= Len(s) /\ IsDigit(s[i]) THEN SkipDigits(s, i + 1) ELSE i

\* likewise for a greedy [^\r\n]*
RECURSIVE SkipLine(_, _)
SkipLine(s, i) == IF i <= Len(s) /\ ~IsLineEnd(s[i]) THEN SkipLine(s, i + 1) ELSE i

RECURSIVE DigitsValue(_)
DigitsValue(d) == IF d = <<>> THEN 0 ELSE 10 * DigitsValue(SubSeq(d, 1, Len(d) - 1)) + (d[Len(d)] - 48)

\* stands for the NaN of parseInt
NaN == -2147483647

\* parseInt(s, 10) on a header value: leading white space, an optional sign,
\* then the longest run of digits; NaN when there is none
ParseInt(s) ==
  LET i == SkipSpace(s, 1)
      neg == i <= Len(s) /\ s[i] = 45
      j == IF i <= Len(s) /\ s[i] \in {43, 45} THEN i + 1 ELSE i
      k == SkipDigits(s, j)
  IN  IF k = j THEN NaN
      ELSE IF neg THEN 0 - DigitsValue(SubSeq(s, j, k - 1))
      ELSE DigitsValue(SubSeq(s, j, k - 1))

(***************************************************************************)
(* decodeURIComponent and TextDecoder                                      *)
(***************************************************************************)
HexVal(c) ==
  IF c \in 48..57 THEN c - 48
  ELSE IF c \in 65..70 THEN c - 55
  ELSE IF c \in 97..102 THEN c - 87
  ELSE -1

\* "%XY" with two hexadecimal digits stands at i
EscapeAt(s, i) ==
  /\ i + 2 <= Len(s)
  /\ s[i] = 37
  /\ HexVal(s[i + 1]) >= 0
  /\ HexVal(s[i + 2]) >= 0

EscapeByte(s, i) == 16 * HexVal(s[i + 1]) + HexVal(s[i + 2])

\* the length of the UTF-8 sequence a lead byte announces (0: not a lead byte)
Utf8Len(b) ==
  IF b < 128 THEN 1
  ELSE IF b \in 194..223 THEN 2
  ELSE IF b \in 224..239 THEN 3
  ELSE IF b \in 240..244 THEN 4
  ELSE 0

IsCont(b) == b \in 128..191

\* the code point of the UTF-8 sequence bs (lead and continuation bytes)
Utf8Point(bs) ==
  LET n == Len(bs)
  IN  IF n = 2 THEN (bs[1] % 32) * 64 + (bs[2] % 64)
      ELSE IF n = 3 THEN (bs[1] % 16) * 4096 + (bs[2] % 64) * 64 + (bs[3] % 64)
      ELSE (bs[1] % 8) * 262144 + (bs[2] % 64) * 4096 + (bs[3] % 64) * 64 + (bs[4] % 64)

Utf8PointOk(bs) ==
  LET n == Len(bs)
      cp == Utf8Point(bs)
  IN  /\ \A k \in 2..n : IsCont(bs[k])
      /\ (n = 3) => (cp >= 2048 /\ cp \notin 55296..57343)
      /\ (n = 4) => (cp >= 65536 /\ cp <= 1114111)

\* decodeURIComponent: [ok |-> FALSE] stands for the URIError it throws
RECURSIVE DecodeURIFrom(_, _)
DecodeURIFrom(s, i) ==
  IF i > Len(s) THEN [ok |-> TRUE, out |-> <<>>]
  ELSE IF s[i] # 37
    THEN LET r == DecodeURIFrom(s, i + 1)
         IN  [ok |-> r.ok, out |-> <<s[i]>> \o r.out]
  ELSE IF ~EscapeAt(s, i) THEN [ok |-> FALSE, out |-> <<>>]
  ELSE
    LET b == EscapeByte(s, i)
        n == Utf8Len(b)
    IN  IF n = 0 \/ i + 3 * n - 1 > Len(s) THEN [ok |-> FALSE, out |-> <<>>]
        ELSE IF \E k \in 1..(n - 1) : ~EscapeAt(s, i + 3 * k) THEN [ok |-> FALSE, out |-> <<>>]
        ELSE
          LET bs == [k \in 1..n |-> EscapeByte(s, i + 3 * (k - 1))]
              r == DecodeURIFrom(s, i + 3 * n)
          IN  IF n = 1 THEN [ok |-> r.ok, out |-> <<b>> \o r.out]
              ELSE IF ~Utf8PointOk(bs) THEN [ok |-> FALSE, out |-> <<>>]
              ELSE [ok |-> r.ok, out |-> <<Utf8Point(bs)>> \o r.out]

DecodeURIComponent(s) == DecodeURIFrom(s, 1)

\* new TextDecoder().decode(bytes): UTF-8, U+FFFD for a byte that starts no
\* valid sequence
RECURSIVE TextDecodeFrom(_, _)
TextDecodeFrom(bytes, i) ==
  IF i > Len(bytes) THEN <<>>
  ELSE
    LET n == Utf8Len(bytes[i])
    IN  IF n = 1 THEN <<bytes[i]>> \o TextDecodeFrom(bytes, i + 1)
        ELSE IF n >= 2 /\ i + n - 1 <= Len(bytes) /\ Utf8PointOk(SubSeq(bytes, i, i + n - 1))
          THEN <<Utf8Point(SubSeq(bytes, i, i + n - 1))>> \o TextDecodeFrom(bytes, i + n)
        ELSE <<65533>> \o TextDecodeFrom(bytes, i + 1)

TextDecode(bytes) == TextDecodeFrom(bytes, 1)

(***************************************************************************)
(* 32-bit integer arithmetic of the frame header                           *)
(***************************************************************************)
\* Numbers here are the signed 32-bit integers of the bitwise operators: every
\* operator below yields its result in -2^31 .. 2^31 - 1.
RECURSIVE Pow2(_)
Pow2(k) == IF k = 0 THEN 1 ELSE 2 * Pow2(k - 1)

\* a | b on signed 32-bit operands (two's complement, bit by bit)
RECURSIVE Or32(_, _)
Or32(a, b) ==
  IF a = 0 THEN b
  ELSE IF b = 0 THEN a
  ELSE IF a = -1 \/ b = -1 THEN -1
  ELSE 2 * Or32(a \div 2, b \div 2) + (IF a % 2 = 1 \/ b % 2 = 1 THEN 1 ELSE 0)

\* a << k for k in 2..31: the low 32 - k bits of a move up, the top one of
\* them becomes the sign
Shl32(a, k) ==
  LET m == Pow2(32 - k)
      r == a % m
  IN  IF 2 * r >= m THEN (r - m) * Pow2(k) ELSE r * Pow2(k)

\* (a >> k) & 0xff
ShrByte(a, k) == (a \div Pow2(k)) % 256

Undefined == -1

\* bytes[i] of a Uint8Array, i counted from 0; undefined outside the array
At(bytes, i) == IF i >= 0 /\ i < Len(bytes) THEN bytes[i + 1] ELSE Undefined

\* an operand of a bitwise operator: undefined counts as 0
Operand(x) == IF x = Undefined THEN 0 ELSE x

\* Uint8Array.prototype.slice(start, end)
Slice(bytes, start, end) ==
  LET len == Len(bytes)
      k == IF start < 0 THEN Max(len + start, 0) ELSE Min(start, len)
      final == IF end < 0 THEN Max(len + end, 0) ELSE Min(end, len)
  IN  IF final > k THEN SubSeq(bytes, k + 1, final) ELSE <<>>

\* a frame whose length bytes are written without the shifts
EncodeFrameNoShift(buffer) ==
  LET len == Len(buffer)
  IN  <<0, 0, 0, 0, ShrByte(len, 0)>> \o buffer

\* the 5-byte header and the payload of a request frame
EncodeFrame(buffer) ==
  LET len == Len(buffer)
  IN  <<0, ShrByte(len, 24), ShrByte(len, 16), ShrByte(len, 8), ShrByte(len, 0)>> \o buffer

\* the length read from the four bytes after the flags byte at offset at
ReadLength(bytes, at) ==
  Or32(Or32(Or32(Shl32(Operand(At(bytes, at + 1)), 24),
                 Shl32(Operand(At(bytes, at + 2)), 16)),
            Shl32(Operand(At(bytes, at + 3)), 8)),
       Operand(At(bytes, at + 4)))

TrailerFlag == 128
HeaderLen == 5

\* the first byte marks a trailers-only response
IsTrailersOnly(responseBytes) == At(responseBytes, 0) = TrailerFlag

MsgLen(responseBytes) == ReadLength(responseBytes, 0)

\* the payload of the message frame at the head of the response
MsgBytes(responseBytes) == Slice(responseBytes, HeaderLen, HeaderLen + MsgLen(responseBytes))

TrailerStart(responseBytes) == HeaderLen + MsgLen(responseBytes)

\* a trailer frame follows the message frame
HasTrailerFrame(responseBytes) ==
  /\ TrailerStart(responseBytes) < Len(responseBytes)
  /\ At(responseBytes, TrailerStart(responseBytes)) = TrailerFlag

\* the text of the trailer frame that follows the message frame
TrailerText(responseBytes) ==
  LET trailerStart == TrailerStart(responseBytes)
      trailerLen == ReadLength(responseBytes, trailerStart)
  IN  TextDecode(Slice(responseBytes, trailerStart + HeaderLen, trailerStart + HeaderLen + trailerLen))

(***************************************************************************)
(* The message types of the method called: protobufjs on                   *)
(*   message Query { int32 code = 1; }   message Reply { int32 code = 1; } *)
(***************************************************************************)
ErrIntExpected == <<99, 111, 100, 101, 58, 32, 105, 110, 116, 101, 103, 101, 114, 32, 101, 120, 112, 101, 99, 116, 101, 100>>  \* "code: integer expected"
ErrIndexOutOfRange == <<105, 110, 100, 101, 120, 32, 111, 117, 116, 32, 111, 102, 32, 114, 97, 110, 103, 101>>  \* "index out of range"
ErrInvalidWireType == <<105, 110, 118, 97, 108, 105, 100, 32, 119, 105, 114, 101, 32, 116, 121, 112, 101>>  \* "invalid wire type"

\* a verification that finds nothing wrong with any value
VerifyNothing(req) == None

\* method.inputType.verify(request): the error text, or None for null
Verify(req) == IF req.hasCode /\ ~req.isInt THEN Some(ErrIntExpected) ELSE None

RECURSIVE VarintBytes(_)
VarintBytes(n) == IF n < 128 THEN <<n>> ELSE <<128 + (n % 128)>> \o VarintBytes(n \div 128)

\* method.inputType.encode(method.inputType.create(request)).finish()
Encode(req) == IF req.hasCode THEN <<8>> \o VarintBytes(req.code) ELSE <<>>

\* Reader.uint32 at pos: the value (as a signed 32-bit integer: negative from
\* 2^31 on) and the position after it, or a RangeError
ReadVarint(bytes, pos) ==
  LET cont(k) == At(bytes, pos + k) = Undefined \/ At(bytes, pos + k) >= 128
      bits(k) == Operand(At(bytes, pos + k)) % 128
      n == IF ~cont(0) THEN 1
           ELSE IF ~cont(1) THEN 2
           ELSE IF ~cont(2) THEN 3
           ELSE IF ~cont(3) THEN 4
           ELSE IF ~cont(4) THEN 5
           ELSE 10
      top == bits(4) % 16
      val == bits(0)
             + (IF n >= 2 THEN bits(1) * 128 ELSE 0)
             + (IF n >= 3 THEN bits(2) * 16384 ELSE 0)
             + (IF n >= 4 THEN bits(3) * 2097152 ELSE 0)
             + (IF n >= 5 THEN (IF top >= 8 THEN top - 16 ELSE top) * 268435456 ELSE 0)
  IN  IF n = 10 /\ pos + 10 > Len(bytes)
        THEN [ok |-> FALSE, val |-> 0, next |-> Len(bytes)]
        ELSE [ok |-> TRUE, val |-> val, next |-> pos + n]

\* Reader.skip(): past one varint
RECURSIVE SkipVarint(_, _)
SkipVarint(bytes, pos) ==
  IF pos >= Len(bytes) THEN [ok |-> FALSE, next |-> pos]
  ELSE IF bytes[pos + 1] >= 128 THEN SkipVarint(bytes, pos + 1)
  ELSE [ok |-> TRUE, next |-> pos + 1]

\* Reader.skip(n)
SkipN(bytes, pos, n) ==
  IF pos + n > Len(bytes) THEN [ok |-> FALSE, next |-> pos] ELSE [ok |-> TRUE, next |-> pos + n]

\* Reader.skipType(wireType); err names the Error thrown
RECURSIVE SkipType(_, _, _)
RECURSIVE SkipGroup(_, _)
SkipType(bytes, pos, wireType) ==
  IF wireType = 0 THEN
    LET r == SkipVarint(bytes, pos) IN [ok |-> r.ok, next |-> r.next, err |-> ErrIndexOutOfRange]
  ELSE IF wireType = 1 THEN
    LET r == SkipN(bytes, pos, 8) IN [ok |-> r.ok, next |-> r.next, err |-> ErrIndexOutOfRange]
  ELSE IF wireType = 2 THEN
    LET l == ReadVarint(bytes, pos)
        r == SkipN(bytes, l.next, l.val)
    IN  [ok |-> l.ok /\ l.val >= 0 /\ r.ok, next |-> r.next, err |-> ErrIndexOutOfRange]
  ELSE IF wireType = 3 THEN SkipGroup(bytes, pos)
  ELSE IF wireType = 5 THEN
    LET r == SkipN(bytes, pos, 4) IN [ok |-> r.ok, next |-> r.next, err |-> ErrIndexOutOfRange]
  ELSE [ok |-> FALSE, next |-> pos, err |-> ErrInvalidWireType]

SkipGroup(bytes, pos) ==
  LET t == ReadVarint(bytes, pos)
  IN  IF ~t.ok THEN [ok |-> FALSE, next |-> t.next, err |-> ErrIndexOutOfRange]
      ELSE IF t.val % 8 = 4 THEN [ok |-> TRUE, next |-> t.next, err |-> ErrIndexOutOfRange]
      ELSE LET r == SkipType(bytes, t.next, t.val % 8)
           IN  IF r.ok THEN SkipGroup(bytes, r.next) ELSE r

\* the decoding loop of Reply: field 1 is read as int32, any other field skipped
RECURSIVE DecodeFrom(_, _, _)
DecodeFrom(bytes, pos, msg) ==
  IF pos >= Len(bytes) THEN [ok |-> TRUE, msg |-> msg, err |-> <<>>]
  ELSE
    LET t == ReadVarint(bytes, pos)
    IN  IF ~t.ok THEN [ok |-> FALSE, msg |-> msg, err |-> ErrIndexOutOfRange]
        ELSE IF t.val \div 8 = 1 THEN
          LET v == ReadVarint(bytes, t.next)
          IN  IF ~v.ok THEN [ok |-> FALSE, msg |-> msg, err |-> ErrIndexOutOfRange]
              ELSE DecodeFrom(bytes, v.next, [code |-> v.val])
        ELSE
          LET r == SkipType(bytes, t.next, t.val % 8)
          IN  IF ~r.ok THEN [ok |-> FALSE, msg |-> msg, err |-> r.err]
              ELSE DecodeFrom(bytes, r.next, msg)

\* method.outputType.toObject(method.outputType.decode(msgBytes), {defaults: true}):
\* an absent field appears with its default
Decode(msgBytes) == DecodeFrom(msgBytes, 0, [code |-> 0])

(***************************************************************************)
(* Trailers and status names                                               *)
(***************************************************************************)
GRPC_STATUS_NAMES ==
  [n \in 0..16 |->
    CASE n = 0 -> <<79, 75>>  \* OK
      [] n = 1 -> <<67, 65, 78, 67, 69, 76, 76, 69, 68>>  \* CANCELLED
      [] n = 2 -> <<85, 78, 75, 78, 79, 87, 78>>  \* UNKNOWN
      [] n = 3 -> <<73, 78, 86, 65, 76, 73, 68, 95, 65, 82, 71, 85, 77, 69, 78, 84>>  \* INVALID_ARGUMENT
      [] n = 4 -> <<68, 69, 65, 68, 76, 73, 78, 69, 95, 69, 88, 67, 69, 69, 68, 69, 68>>  \* DEADLINE_EXCEEDED
      [] n = 5 -> <<78, 79, 84, 95, 70, 79, 85, 78, 68>>  \* NOT_FOUND
      [] n = 6 -> <<65, 76, 82, 69, 65, 68, 89, 95, 69, 88, 73, 83, 84, 83>>  \* ALREADY_EXISTS
      [] n = 7 -> <<80, 69, 82, 77, 73, 83, 83, 73, 79, 78, 95, 68, 69, 78, 73, 69, 68>>  \* PERMISSION_DENIED
      [] n = 8 -> <<82, 69, 83, 79, 85, 82, 67, 69, 95, 69, 88, 72, 65, 85, 83, 84, 69, 68>>  \* RESOURCE_EXHAUSTED
      [] n = 9 -> <<70, 65, 73, 76, 69, 68, 95, 80, 82, 69, 67, 79, 78, 68, 73, 84, 73, 79, 78>>  \* FAILED_PRECONDITION
      [] n = 10 -> <<65, 66, 79, 82, 84, 69, 68>>  \* ABORTED
      [] n = 11 -> <<79, 85, 84, 95, 79, 70, 95, 82, 65, 78, 71, 69>>  \* OUT_OF_RANGE
      [] n = 12 -> <<85, 78, 73, 77, 80, 76, 69, 77, 69, 78, 84, 69, 68>>  \* UNIMPLEMENTED
      [] n = 13 -> <<73, 78, 84, 69, 82, 78, 65, 76>>  \* INTERNAL
      [] n = 14 -> <<85, 78, 65, 86, 65, 73, 76, 65, 66, 76, 69>>  \* UNAVAILABLE
      [] n = 15 -> <<68, 65, 84, 65, 95, 76, 79, 83, 83>>  \* DATA_LOSS
      [] n = 16 -> <<85, 78, 65, 85, 84, 72, 69, 78, 84, 73, 67, 65, 84, 69, 68>>  \* UNAUTHENTICATED
  ]

KeyStatus == <<103, 114, 112, 99, 45, 115, 116, 97, 116, 117, 115, 58>>  \* "grpc-status:"
KeyMessage == <<103, 114, 112, 99, 45, 109, 101, 115, 115, 97, 103, 101, 58>>  \* "grpc-message:"
StrUnknownError == <<85, 110, 107, 110, 111, 119, 110, 32, 101, 114, 114, 111, 114>>  \* "Unknown error"
StrUNKNOWN == <<85, 78, 75, 78, 79, 87, 78>>  \* "UNKNOWN"
StrCODE == <<67, 79, 68, 69, 95>>  \* "CODE_"
StrNaN == <<78, 97, 78>>  \* "NaN"
StrColonSp == <<58, 32>>  \* ": "

\* GRPC_STATUS_NAMES[grpcStatus] || `CODE_${grpcStatus}`
StatusName(grpcStatus) ==
  IF grpcStatus \in DOMAIN GRPC_STATUS_NAMES THEN GRPC_STATUS_NAMES[grpcStatus]
  ELSE IF grpcStatus = NaN THEN StrCODE \o StrNaN
  ELSE IF grpcStatus < 0 THEN StrCODE \o <<45>> \o Decimal(0 - grpcStatus)
  ELSE StrCODE \o Decimal(grpcStatus)

\* the places where /grpc-status:\s*(\d+)/ matches
StatusMatches(text) ==
  {i \in 1..(Len(text) - Len(KeyStatus) + 1) :
     /\ SubSeq(text, i, i + Len(KeyStatus) - 1) = KeyStatus
     /\ LET d == SkipSpace(text, i + Len(KeyStatus))
        IN  d <= Len(text) /\ IsDigit(text[d])}

MessageMatches(text) ==
  {i \in 1..(Len(text) - Len(KeyMessage) + 1) :
     SubSeq(text, i, i + Len(KeyMessage) - 1) = KeyMessage}

First(S) == CHOOSE i \in S : \A j \in S : i <= j

\* parseGrpcTrailers: ok is FALSE when decodeURIComponent throws
ParseGrpcTrailers(trailerText) ==
  LET sm == StatusMatches(trailerText)
      mm == MessageMatches(trailerText)
      status ==
        IF sm = {} THEN None
        ELSE LET d == SkipSpace(trailerText, First(sm) + Len(KeyStatus))
             IN  Some(DigitsValue(SubSeq(trailerText, d, SkipDigits(trailerText, d) - 1)))
      raw ==
        IF mm = {} THEN <<>>
        ELSE LET b == SkipSpace(trailerText, First(mm) + Len(KeyMessage))
             IN  SubSeq(trailerText, b, SkipLine(trailerText, b) - 1)
      dec == DecodeURIComponent(raw)
  IN  [ok |-> mm = {} \/ dec.ok,
       status |-> status,
       message |-> IF mm = {} \/ ~dec.ok THEN None ELSE Some(dec.out)]

(***************************************************************************)
(* CallResult (duration, a clock reading, is left out)                     *)
(***************************************************************************)
StrEmptyResponse == <<69, 109, 112, 116, 121, 32, 114, 101, 115, 112, 111, 110, 115, 101, 32, 40>>  \* "Empty response ("
StrBytesClose == <<32, 98, 121, 116, 101, 115, 41>>  \* " bytes)"
StrInvalidRequest == <<73, 110, 118, 97, 108, 105, 100, 32, 114, 101, 113, 117, 101, 115, 116, 58, 32>>  \* "Invalid request: "
StrHTTP == <<72, 84, 84, 80, 32>>  \* "HTTP "
StrURIMalformed == <<85, 82, 73, 32, 109, 97, 108, 102, 111, 114, 109, 101, 100>>  \* "URI malformed"
StrFailedToFetch == <<70, 97, 105, 108, 101, 100, 32, 116, 111, 32, 102, 101, 116, 99, 104>>  \* "Failed to fetch"
StrNetworkError == <<78, 101, 116, 119, 111, 114, 107, 69, 114, 114, 111, 114>>  \* "NetworkError"
StrCORS == <<67, 79, 82, 83>>  \* "CORS"
MsgNetworkError == <<78, 101, 116, 119, 111, 114, 107, 32, 69, 114, 114, 111, 114, 58, 32, 85, 110, 97, 98, 108, 101, 32, 116, 111, 32, 99, 111, 110, 110, 101, 99, 116, 32, 116, 111, 32, 115, 101, 114, 118, 101, 114, 46, 32, 67, 104, 101, 99, 107, 32, 105, 102, 32, 116, 104, 101, 32, 85, 82, 76, 32, 105, 115, 32, 99, 111, 114, 114, 101, 99, 116, 32, 97, 110, 100, 32, 116, 104, 101, 32, 115, 101, 114, 118, 101, 114, 32, 105, 115, 32, 114, 117, 110, 110, 105, 110, 103, 46>>
MsgCORSError == <<67, 79, 82, 83, 32, 69, 114, 114, 111, 114, 58, 32, 84, 104, 101, 32, 115, 101, 114, 118, 101, 114, 32, 100, 111, 101, 115, 32, 110, 111, 116, 32, 97, 108, 108, 111, 119, 32, 114, 101, 113, 117, 101, 115, 116, 115, 32, 102, 114, 111, 109, 32, 116, 104, 105, 115, 32, 111, 114, 105, 103, 105, 110, 46>>

\* a result without grpcStatus and grpcMessage
ErrorResult(text) ==
  [response |-> None, error |-> Some(text), grpcStatus |-> None,
   grpcMessage |-> None, status |-> "error"]

\* `${statusName}: ${grpcMessage || 'Unknown error'}` with the status attached
GrpcErrorResult(statusName, grpcStatus, grpcMessage) ==
  [response |-> None,
   error |-> Some(statusName \o StrColonSp \o
                    (IF grpcMessage = None \/ grpcMessage[1] = <<>>
                       THEN StrUnknownError ELSE grpcMessage[1])),
   grpcStatus |-> grpcStatus,
   grpcMessage |-> grpcMessage,
   status |-> "error"]

SuccessResult(responseObj) ==
  [response |-> Some(responseObj), error |-> None, grpcStatus |-> None,
   grpcMessage |-> None, status |-> "success"]

\* the catch block: the result for a thrown error with message errorMessage
CatchResult(errorMessage) ==
  ErrorResult(IF Includes(errorMessage, StrFailedToFetch) \/ Includes(errorMessage, StrNetworkError)
                THEN MsgNetworkError
              ELSE IF Includes(errorMessage, StrCORS) THEN MsgCORSError
              ELSE errorMessage)

\* the branch for a body shorter than the frame header
ShortResponse(responseBytes, headerGrpcStatus, headerGrpcMessage) ==
  IF headerGrpcStatus # None /\ headerGrpcStatus[1] # <<>> /\ headerGrpcStatus[1] # <<48>>
  THEN
    LET grpcStatus == ParseInt(headerGrpcStatus[1])
        given == headerGrpcMessage # None /\ headerGrpcMessage[1] # <<>>
        dec == DecodeURIComponent(IF given THEN headerGrpcMessage[1] ELSE <<>>)
    IN  IF given /\ ~dec.ok THEN CatchResult(StrURIMalformed)
        ELSE GrpcErrorResult(StatusName(grpcStatus), Some(grpcStatus),
                             IF given THEN Some(dec.out) ELSE None)
  ELSE ErrorResult(StrEmptyResponse \o Decimal(Len(responseBytes)) \o StrBytesClose)

\* the branch for a trailers-only response
TrailersOnlyResponse(responseBytes) ==
  LET t == ParseGrpcTrailers(TextDecode(Slice(responseBytes, HeaderLen, Len(responseBytes))))
  IN  IF ~t.ok THEN CatchResult(StrURIMalformed)
      ELSE GrpcErrorResult(IF t.status # None THEN StatusName(t.status[1]) ELSE StrUNKNOWN,
                           t.status, t.message)

\* the decoding of the message frame once the trailers allow it
DecodeResponse(msgBytes) ==
  LET d == Decode(msgBytes)
  IN  IF d.ok THEN SuccessResult(d.msg) ELSE CatchResult(d.err)

\* the branch for a message frame, with the trailer frame that may follow it:
\* the result, and the bytes handed to the message decoder
MessageResponse(responseBytes) ==
  LET msgBytes == MsgBytes(responseBytes)
      t == IF HasTrailerFrame(responseBytes)
             THEN ParseGrpcTrailers(TrailerText(responseBytes))
             ELSE [ok |-> TRUE, status |-> None, message |-> None]
  IN  IF ~t.ok THEN [result |-> CatchResult(StrURIMalformed), decodeArg |-> None]
      ELSE IF t.status # None /\ t.status[1] # 0
        THEN [result |-> GrpcErrorResult(StatusName(t.status[1]), t.status, t.message),
              decodeArg |-> None]
      ELSE [result |-> DecodeResponse(msgBytes), decodeArg |-> Some(msgBytes)]

\* the parsing without the test of the body's length
ParseResponseNoLengthCheck(responseBytes, headerGrpcStatus, headerGrpcMessage) ==
  IF IsTrailersOnly(responseBytes)
    THEN [result |-> TrailersOnlyResponse(responseBytes), decodeArg |-> None]
  ELSE MessageResponse(responseBytes)

\* the parsing of an HTTP-OK response
ParseResponse(responseBytes, headerGrpcStatus, headerGrpcMessage) ==
  IF Len(responseBytes) < HeaderLen
    THEN [result |-> ShortResponse(responseBytes, headerGrpcStatus, headerGrpcMessage),
          decodeArg |-> None]
  ELSE IF IsTrailersOnly(responseBytes)
    THEN [result |-> TrailersOnlyResponse(responseBytes), decodeArg |-> None]
  ELSE MessageResponse(responseBytes)

(***************************************************************************)
(* What a server may answer                                                *)
(***************************************************************************)
CRLF == <<13, 10>>
Space == <<32>>

\* the digits of the grpc-status values a server sends (<<>>: no status line)
StatusTexts == {<<>>, <<48>>, <<53>>, <<49, 54>>, <<57, 57>>}
\* the raw grpc-message values a server sends: "not%20found", "100%" (a bare
\* percent sign), "caf%C3%A9", "on grpc-status: 7" (a message quoting a status)
MessageTexts == {<<110, 111, 116, 37, 50, 48, 102, 111, 117, 110, 100>>, <<49, 48, 48, 37>>, <<99, 97, 102, 37, 67, 51, 37, 65, 57>>, <<111, 110, 32, 103, 114, 112, 99, 45, 115, 116, 97, 116, 117, 115, 58, 32, 55>>}
NoLine == <<-1>>
MessageChoices == {NoLine, <<>>} \cup MessageTexts

StatusLine(digits) == IF digits = <<>> THEN <<>> ELSE KeyStatus \o Space \o digits \o CRLF
MessageLine(raw) == IF raw = NoLine THEN <<>> ELSE KeyMessage \o Space \o raw \o CRLF

\* the text of a trailer block
TrailerBlock(t) ==
  IF t.statusFirst THEN StatusLine(t.status) \o MessageLine(t.message)
  ELSE MessageLine(t.message) \o StatusLine(t.status)

\* a length as four big-endian bytes
BigEndian32(n) ==
  <<(n \div 16777216) % 256, (n \div 65536) % 256, (n \div 256) % 256, n % 256>>

TrailerFrameBytes(t) == <<t.flag>> \o BigEndian32(Len(TrailerBlock(t))) \o TrailerBlock(t)

\* a message frame whose header declares `declared` bytes
MessageFrameBytes(m) == <<m.flag>> \o BigEndian32(m.declared) \o m.payload

\* protobuf payloads: empty, code = 5, code = 300, an unknown string field,
\* a varint cut short, a field with wire type 7
GoodPayloads == {<<>>, <<8, 5>>, <<8, 172, 2>>, <<18, 1, 65>>}
BadPayloads == {<<8>>, <<15, 0>>}
Payloads == GoodPayloads \cup BadPayloads

\* extra bytes a header may declare beyond the payload it carries
MaxMissing == 1

MessageFrames ==
  {[flag |-> 0, payload |-> p, declared |-> Len(p) + k] : p \in Payloads, k \in 0..MaxMissing}

TrailerFlags == {128, 129}

TrailerFrames ==
  {[flag |-> f, status |-> s, message |-> m, statusFirst |-> o] :
     f \in TrailerFlags, s \in StatusTexts, m \in MessageChoices, o \in BOOLEAN}

\* the trailer blocks sent: the order of the two lines matters only when
\* both are there
SentTrailers ==
  {x \in TrailerFrames : x.statusFirst \/ (x.status # <<>> /\ x.message # NoLine)}

NoTrailer == [flag |-> 0, status |-> <<>>, message |-> NoLine, statusFirst |-> TRUE]
NoMessage == [flag |-> 0, payload |-> <<>>, declared |-> 0]

\* bodies given byte by byte, up to MaxRaw bytes: all those shorter than a
\* frame header, and headers with nothing after them
RawBytes == {0, 128, 129}
MaxRaw == 5
RawBodies == UNION {[1..n -> RawBytes] : n \in 0..MaxRaw}

\* the responses served: a body given byte by byte, or an optional message
\* frame followed by an optional trailer frame
Served ==
  {[kind |-> "raw", bytes |-> b, msg |-> NoMessage, trailer |-> NoTrailer] : b \in RawBodies}
  \cup
  {[kind |-> "frames", bytes |-> MessageFrameBytes(m), msg |-> m, trailer |-> NoTrailer] :
     m \in MessageFrames}
  \cup
  {[kind |-> "frames", bytes |-> MessageFrameBytes(m) \o TrailerFrameBytes(t), msg |-> m, trailer |-> t] :
     m \in MessageFrames, t \in SentTrailers}
  \cup
  {[kind |-> "trailers", bytes |-> TrailerFrameBytes(t), msg |-> NoMessage, trailer |-> t] :
     t \in SentTrailers}

\* response headers: grpc-status absent, "0", "5", "x"; grpc-message absent,
\* "not%20found", "%"
HeaderStatuses == {None, Some(<<48>>), Some(<<53>>), Some(<<120>>)}
HeaderMessages == {None, Some(<<110, 111, 116, 37, 50, 48, 102, 111, 117, 110, 100>>), Some(<<37>>)}

Responses ==
  {[ok |-> TRUE, status |-> 200, grpcStatus |-> hs, grpcMessage |-> hm] :
     hs \in HeaderStatuses, hm \in HeaderMessages}
  \cup
  {[ok |-> FALSE, status |-> st, grpcStatus |-> None, grpcMessage |-> None] : st \in {404, 503}}

\* the bodies of responses that are not OK: "", "Bad Gateway"
ErrorTexts == {<<>>, <<66, 97, 100, 32, 71, 97, 116, 101, 119, 97, 121>>}

\* the messages of the errors fetch and the body streams reject with
FetchErrors == {StrFailedToFetch, <<78, 101, 116, 119, 111, 114, 107, 69, 114, 114, 111, 114, 32, 119, 104, 101, 110, 32, 97, 116, 116, 101, 109, 112, 116, 105, 110, 103, 32, 116, 111, 32, 102, 101, 116, 99, 104, 32, 114, 101, 115, 111, 117, 114, 99, 101, 46>>,
                <<67, 79, 82, 83, 32, 114, 101, 113, 117, 101, 115, 116, 32, 100, 105, 100, 32, 110, 111, 116, 32, 115, 117, 99, 99, 101, 101, 100>>, <<84, 104, 101, 32, 111, 112, 101, 114, 97, 116, 105, 111, 110, 32, 119, 97, 115, 32, 97, 98, 111, 114, 116, 101, 100, 46>>}

\* request values: {code: 300}, {code: "a"}
Requests ==
  {[hasCode |-> TRUE, isInt |-> TRUE, code |-> 300],
   [hasCode |-> TRUE, isInt |-> FALSE, code |-> 0]}

(***************************************************************************)
(* executeCall                                                             *)
(***************************************************************************)
IdleSynth ==
  /\ schema = <<>>
  /\ root = ""
  /\ stack = <<>>
  /\ ret = None
  /\ calls = 0

IdleFrame ==
  /\ payload = <<>>
  /\ wire = None
  /\ extracted = None

IdleFields == fieldMetas = None

IdleLoad ==
  /\ protoContents = <<>>
  /\ lroot = <<>>
  /\ unitIx = 0
  /\ warnings = <<>>
  /\ loadResult = None

IdleConc ==
  /\ invocations = <<>>
  /\ tokens = {}

IdleCall ==
  /\ pc = "idle"
  /\ request = None
  /\ frame = None
  /\ resp = None
  /\ served = None
  /\ body = None
  /\ decodeArg = None
  /\ result = None

\* no method panel is mounted
IdlePanel ==
  /\ selectedMethod = <<>>
  /\ methodCache = <<>>
  /\ jsonText = <<>>
  /\ panelResult = <<>>
  /\ loading = FALSE
  /\ executing = <<>>

Init == IdleCall /\ IdleSynth /\ IdleFrame /\ IdleFields /\ IdleLoad /\ IdleConc /\ IdlePanel

\* executeCall up to the await of fetch: verify, encode, frame, send
Call ==
  /\ pc = "idle"
  /\ \E req \in Requests :
       /\ request' = Some(req)
       /\ IF Verify(req) # None
            THEN /\ result' = Some(ErrorResult(StrInvalidRequest \o Verify(req)[1]))
                 /\ frame' = None
                 /\ pc' = "done"
            ELSE /\ frame' = Some(EncodeFrame(Encode(req)))
                 /\ result' = None
                 /\ pc' = "fetch"
  /\ UNCHANGED <<resp, served, body, decodeArg>>

\* fetch resolves with a Response
FetchResolve ==
  /\ pc = "fetch"
  /\ \E r \in Responses : resp' = Some(r)
  /\ pc' = "body"
  /\ UNCHANGED <<request, frame, served, body, decodeArg, result>>

\* fetch rejects: the catch block
FetchReject ==
  /\ pc = "fetch"
  /\ \E errorMessage \in FetchErrors : result' = Some(CatchResult(errorMessage))
  /\ pc' = "done"
  /\ UNCHANGED <<request, frame, resp, served, body, decodeArg>>

\* a response that is not OK: await response.text()
ReadErrorText ==
  /\ pc = "body"
  /\ ~resp[1].ok
  /\ \E text \in ErrorTexts :
       /\ body' = Some(text)
       /\ result' = Some(ErrorResult(StrHTTP \o Decimal(resp[1].status) \o StrColonSp
                                       \o TextDecode(text)))
  /\ pc' = "done"
  /\ UNCHANGED <<request, frame, resp, served, decodeArg>>

\* an OK response: await response.arrayBuffer(), then the parsing to the end
ReadArrayBuffer ==
  /\ pc = "body"
  /\ resp[1].ok
  /\ \E s \in Served :
       /\ served' = Some(s)
       /\ body' = Some(s.bytes)
       /\ \E r \in {ParseResponse(s.bytes, resp[1].grpcStatus, resp[1].grpcMessage)} :
            /\ result' = Some(r.result)
            /\ decodeArg' = r.decodeArg
  /\ pc' = "done"
  /\ UNCHANGED <<request, frame, resp>>

\* reading the body rejects: the catch block
ReadReject ==
  /\ pc = "body"
  /\ \E errorMessage \in FetchErrors : result' = Some(CatchResult(errorMessage))
  /\ pc' = "done"
  /\ UNCHANGED <<request, frame, resp, served, body, decodeArg>>

Next ==
  /\ UNCHANGED <<synthVars, frameVars, fieldVars, loadVars, concVars, panelVars>>
  /\ \/ Call
     \/ FetchResolve
     \/ FetchReject
     \/ ReadErrorText
     \/ ReadArrayBuffer
     \/ ReadReject

Spec == Init /\ [][Next]_vars

(***************************************************************************)
(* The registry: declarations by fully-qualified name.  A name is the      *)
(* sequence of its dotted segments.                                        *)
(***************************************************************************)
ScalarTypes ==
  {"double", "float", "int32", "int64", "uint32", "uint64", "sint32", "sint64",
   "fixed32", "fixed64", "sfixed32", "sfixed64", "bool", "string", "bytes"}

IsScalarToken(type) == Len(type) = 1 /\ type[1] \in ScalarTypes

Declared(sch) == DOMAIN sch.messages \cup DOMAIN sch.enums

\* the names a type token may stand for in the scope of message msgName, the
\* innermost scope first, the root last
Candidates(msgName, type) == [k \in 1..(Len(msgName) + 1) |-> SubSeq(msgName, 1, Len(msgName) + 1 - k) \o type]

\* field.resolvedType after root.resolveAll(): None for a scalar, else the
\* declaration the token is bound to
ResolvedType(sch, msgName, type) ==
  LET c == Candidates(msgName, type)
      hits == {k \in DOMAIN c : c[k] \in Declared(sch)}
  IN  IF IsScalarToken(type) \/ hits = {} THEN None
      ELSE Some(c[CHOOSE k \in hits : \A j \in hits : k <= j])

\* getScalarTypeName
GetScalarTypeName(type) == type

\* field.type.split('.').pop()
ShortName(type) == type[Len(type)]

\* the FieldMeta extractFields pushes for one field of message msgName
FieldMetaOf(sch, msgName, field) ==
  LET isScalar == IsScalarToken(field.type)
      resolvedType == ResolvedType(sch, msgName, field.type)
      isEnum == resolvedType # None /\ resolvedType[1] \in DOMAIN sch.enums
      isType == resolvedType # None /\ resolvedType[1] \in DOMAIN sch.messages
      kind == IF resolvedType # None
                THEN (IF isEnum THEN "enum" ELSE IF isType THEN "message" ELSE "scalar")
              ELSE IF field.map THEN "map"
              ELSE "scalar"
  IN  [no |-> field.id,
       name |-> field.name,
       jsonName |-> field.name,
       kind |-> kind,
       type |-> IF isScalar THEN GetScalarTypeName(field.type[1]) ELSE ShortName(field.type),
       repeated |-> field.repeated,
       enumValues |-> IF isEnum THEN Some(sch.enums[resolvedType[1]]) ELSE None,
       messageType |-> IF isType /\ ~isEnum THEN resolvedType ELSE None]

\* extractFields(msgType): one FieldMeta per field, in declaration order
ExtractFields(sch, msgName) ==
  [i \in DOMAIN sch.messages[msgName] |-> FieldMetaOf(sch, msgName, sch.messages[msgName][i])]

(***************************************************************************)
(* Canonical values                                                        *)
(***************************************************************************)
VString == [tag |-> "string", text |-> <<>>]
VNumber(n) == [tag |-> "number", n |-> n]
VFalse == [tag |-> "boolean", b |-> FALSE]
VNull == [tag |-> "null"]
VObject(fields) == [tag |-> "object", fields |-> fields]
VArray(items) == [tag |-> "array", items |-> items]
EmptyObject == VObject(<<>>)
\* what a RangeError of the engine's call stack leaves instead of a value
VRangeError == [tag |-> "RangeError"]

\* obj[key] = value
SetKey(fields, key, value) == (key :> value) @@ fields

\* getScalarDefault
GetScalarDefault(type) ==
  IF type = "string" THEN VString
  ELSE IF type = "bool" THEN VFalse
  ELSE IF type \in {"int64", "uint64", "sint64", "fixed64", "sfixed64", "int32", "uint32",
                    "sint32", "fixed32", "sfixed32", "double", "float"} THEN VNumber(0)
  ELSE IF type = "bytes" THEN VString
  ELSE VNull

(***************************************************************************)
(* createEmptyRequest and createDefaultValue, one call at a time.          *)
(* stack[1] is the loop of createEmptyRequest; every frame above it is a   *)
(* call of createDefaultValue that is filling `nested`.                    *)
(***************************************************************************)
\* the deepest call stack the engine allows before it throws a RangeError
StackLimit == 7

\* a guard that never finds the type
IsVisitedNever(visited, typeName) == FALSE

\* visited.has(typeName)
IsVisited(visited, typeName) == typeName \in visited

\* a copy of visited to which typeName is not added
NewVisitedNotAdded(visited, typeName) == visited

\* newVisited: a copy of visited with typeName added
NewVisited(visited, typeName) == visited \cup {typeName}

\* a first set that already holds the input message
InitialVisitedWithRoot(rootName) == {rootName}

\* the set createEmptyRequest's calls start from (the default parameter)
InitialVisited(rootName) == {}

\* the call createDefaultValue(field, visited) descends into a nested message
Expands(field, visited) ==
  /\ field.kind = "message"
  /\ field.messageType # None
  /\ ~IsVisited(visited, field.messageType[1])

\* singleValue() of a call that does not descend
SingleValue(field, visited) ==
  IF field.kind = "enum"
    THEN (IF field.enumValues # None /\ field.enumValues[1] # <<>>
            THEN VNumber(field.enumValues[1][1][2]) ELSE VNumber(0))
  ELSE IF field.kind = "message" /\ field.messageType # None
    THEN EmptyObject
  ELSE GetScalarDefault(field.type)

\* the value a call returns for its single value
Cardinality1(field, single) == IF field.repeated THEN VArray(<<single>>) ELSE single

Top == stack[Len(stack)]

\* one set that the caller and the call it made both write to
VisitedShared(callerVisited, calleeVisited) == calleeVisited

\* the caller's set after a call it made has returned: the call added its
\* type to a copy (new Set(visited)), so the caller's own set is as it was
VisitedAfterCall(callerVisited, calleeVisited) == callerVisited

\* the frame below the top receives the value of the field it is at
Receive(frm, value) ==
  [frm EXCEPT !.nested = SetKey(frm.nested, Head(frm.todo).jsonName, value),
              !.todo = Tail(frm.todo)]

\* createEmptyRequest(method) begins: the loop over method.inputFields
SynthFrame(field, typeName, visited, todo) ==
  [field |-> field, typeName |-> typeName, visited |-> visited, todo |-> todo, nested |-> <<>>]

\* a call of createDefaultValue that returns at once: an enum, a scalar, or
\* a message type that was visited
SynthLeaf ==
  /\ stack # <<>>
  /\ Top.todo # <<>>
  /\ ~Expands(Head(Top.todo), Top.visited)
  /\ LET f == Head(Top.todo)
     IN  stack' = [stack EXCEPT ![Len(stack)] =
                     Receive(@, Cardinality1(f, SingleValue(f, Top.visited)))]
  /\ calls' = calls + 1
  /\ UNCHANGED <<schema, root, ret>>

\* a call of createDefaultValue that descends into the nested message
SynthExpand ==
  /\ stack # <<>>
  /\ Top.todo # <<>>
  /\ Expands(Head(Top.todo), Top.visited)
  /\ LET f == Head(Top.todo)
         typeName == f.messageType[1]
     IN  IF Len(stack) >= StackLimit
           THEN /\ stack' = <<>>
                /\ ret' = Some(VRangeError)
           ELSE /\ stack' = Append(stack, SynthFrame(Some(f), typeName,
                                                      NewVisited(Top.visited, typeName),
                                                      ExtractFields(schema, typeName)))
                /\ ret' = ret
  /\ calls' = calls + 1
  /\ UNCHANGED <<schema, root>>

\* the loop of the top frame is over: the call returns `nested` (createEmptyRequest
\* returns req)
SynthReturn ==
  /\ stack # <<>>
  /\ Top.todo = <<>>
  /\ IF Len(stack) = 1
       THEN /\ ret' = Some(VObject(Top.nested))
            /\ stack' = <<>>
       ELSE /\ stack' = [SubSeq(stack, 1, Len(stack) - 1) EXCEPT ![Len(stack) - 1] =
                           [Receive(@, Cardinality1(Top.field[1], VObject(Top.nested)))
                              EXCEPT !.visited = VisitedAfterCall(@, Top.visited)]]
            /\ ret' = ret
  /\ UNCHANGED <<schema, root, calls>>

(***************************************************************************)
(* The registries loaded                                                   *)
(***************************************************************************)
Field(id, name, type) == [id |-> id, name |-> name, type |-> type, repeated |-> FALSE, map |-> FALSE]
Repeated(id, name, type) == [id |-> id, name |-> name, type |-> type, repeated |-> TRUE, map |-> FALSE]
\* a map field; type is the type of its values
MapField(id, name, type) == [id |-> id, name |-> name, type |-> type, repeated |-> FALSE, map |-> TRUE]

NoEnums == <<>>

\* message Node { string id = 1; Node next = 2; }
NodeSchema ==
  [messages |-> (<<"Node">> :> <<Field(1, "id", <<"string">>), Field(2, "next", <<"Node">>)>>),
   enums |-> NoEnums]

\* P -> Q -> R -> P: mutual recursion through intermediate types
RingSchema ==
  [messages |-> (<<"P">> :> <<Field(1, "q", <<"Q">>), Field(2, "s", <<"string">>)>>)
             @@ (<<"Q">> :> <<Field(1, "r", <<"R">>)>>)
             @@ (<<"R">> :> <<Field(1, "p", <<"P">>), Field(2, "n", <<"int32">>)>>),
   enums |-> NoEnums]

\* message Tree { repeated Tree children = 1; string label = 2; }
TreeSchema ==
  [messages |-> (<<"Tree">> :> <<Repeated(1, "children", <<"Tree">>), Field(2, "label", <<"string">>)>>),
   enums |-> NoEnums]

\* a self-referential message with a chain of other messages behind it
TailSchema ==
  [messages |-> (<<"P">> :> <<Field(1, "self", <<"P">>), Field(2, "q", <<"Q">>)>>)
             @@ (<<"Q">> :> <<Field(1, "r", <<"R">>)>>)
             @@ (<<"R">> :> <<Field(1, "x", <<"string">>)>>),
   enums |-> NoEnums]

\* two sibling fields of one message type, and the type again further down
PairSchema ==
  [messages |-> (<<"Pair">> :> <<Field(1, "left", <<"Leaf">>), Field(2, "right", <<"Leaf">>),
                               Field(3, "box", <<"Box">>)>>)
             @@ (<<"Box">> :> <<Field(1, "leaf", <<"Leaf">>)>>)
             @@ (<<"Leaf">> :> <<Field(1, "v", <<"string">>)>>),
   enums |-> NoEnums]

\* google.protobuf.Struct, Value, ListValue and NullValue as loadProtoFiles adds them
StructSchema ==
  [messages |->
     (<<"google", "protobuf", "Struct">> :> <<MapField(1, "fields", <<"Value">>)>>)
     @@ (<<"google", "protobuf", "Value">> :>
           <<Field(1, "null_value", <<"NullValue">>), Field(2, "number_value", <<"double">>),
             Field(3, "string_value", <<"string">>), Field(4, "bool_value", <<"bool">>),
             Field(5, "struct_value", <<"Struct">>), Field(6, "list_value", <<"ListValue">>)>>)
     @@ (<<"google", "protobuf", "ListValue">> :> <<Repeated(1, "values", <<"Value">>)>>),
   enums |-> (<<"google", "protobuf", "NullValue">> :> << <<"NULL_VALUE", 0>> >>)]

\* enums, maps of scalars, of enums and of messages, repeated scalars
MixedSchema ==
  [messages |->
     (<<"shop", "Item">> :>
        <<Field(1, "color", <<"Color">>), MapField(2, "labels", <<"string">>),
          MapField(3, "parts", <<"Part">>), MapField(4, "shades", <<"shop", "Color">>),
          Repeated(5, "sizes", <<"int32">>), Field(6, "blob", <<"bytes">>),
          Field(7, "none", <<"Nothing">>), Repeated(8, "tints", <<"Color">>),
          Field(9, "sold", <<"bool">>)>>)
     @@ (<<"shop", "Part">> :> <<Field(1, "item", <<"Item">>), Field(2, "weight", <<"double">>)>>),
   enums |-> (<<"shop", "Color">> :> << <<"RED", 3>>, <<"GREEN", 4>> >>)
          @@ (<<"shop", "Nothing">> :> <<>>)]

NamedSchemas ==
  {NodeSchema, RingSchema, TreeSchema, TailSchema, PairSchema, StructSchema, MixedSchema}

\* every registry of the messages A and B with at most MaxFields fields each,
\* a field being a string or a message
MaxFields == 2
GridTypes == {<<"A">>, <<"B">>}
GridFieldTypes == {<<"string">>} \cup GridTypes
FieldNames == <<"f1", "f2", "f3", "f4">>
GridFieldLists == UNION {[1..n -> GridFieldTypes] : n \in 0..MaxFields}
GridMessage(types) == [i \in DOMAIN types |-> Field(i, FieldNames[i], types[i])]
GridSchemas ==
  {[messages |-> (<<"A">> :> GridMessage(a)) @@ (<<"B">> :> GridMessage(b)), enums |-> NoEnums] :
     a \in GridFieldLists, b \in GridFieldLists}

Schemas == NamedSchemas \cup GridSchemas

(***************************************************************************)
(* createEmptyRequest on a method of the loaded registry                   *)
(***************************************************************************)
InitSynth ==
  /\ IdleCall /\ IdleFrame /\ IdleFields /\ IdleLoad /\ IdleConc /\ IdlePanel
  /\ schema \in Schemas
  /\ root \in DOMAIN schema.messages
  /\ stack = <<SynthFrame(None, root, InitialVisited(root), ExtractFields(schema, root))>>
  /\ ret = None
  /\ calls = 0

NextSynth ==
  /\ UNCHANGED <<callVars, frameVars, fieldVars, loadVars, concVars, panelVars>>
  /\ \/ SynthLeaf
     \/ SynthExpand
     \/ SynthReturn

\* the recursion is synchronous: a call that can take a step takes it
SpecSynth == InitSynth /\ [][NextSynth]_vars /\ WF_vars(NextSynth)

(***************************************************************************)
(* extractFields on a message of the loaded registry                       *)
(***************************************************************************)
InitFields ==
  /\ IdleCall /\ IdleFrame /\ IdleLoad /\ IdleConc /\ IdlePanel
  /\ schema \in Schemas
  /\ root \in DOMAIN schema.messages
  /\ stack = <<>>
  /\ ret = None
  /\ calls = 0
  /\ fieldMetas = None

Introspect ==
  /\ fieldMetas = None
  /\ fieldMetas' = Some(ExtractFields(schema, root))
  /\ UNCHANGED <<callVars, synthVars, frameVars, loadVars, concVars, panelVars>>

NextFields == Introspect

SpecFields == InitFields /\ [][NextFields]_vars

(***************************************************************************)
(* Claims about executeCall                                                *)
(***************************************************************************)
\* the call returned after reading the body of an HTTP-OK response
ParsedOk == pc = "done" /\ served # None

\* the message frame the server wrote is whole and its payload decodes
MessageIntact(s) ==
  /\ s.kind = "frames"
  /\ s.msg.declared = Len(s.msg.payload)
  /\ s.msg.payload \in GoodPayloads

HasTrailer(s) == s.trailer # NoTrailer

\* C1: an HTTP-OK response whose body has fewer than 5 bytes gives status
\* 'error' and response null, and nothing is handed to the message decoder,
\* whatever the response headers are.
C1_ShortBodyIsError ==
  (ParsedOk /\ Len(body[1]) < 5) =>
    /\ result[1].status = "error"
    /\ result[1].response = None
    /\ decodeArg = None

\* a 4-byte body of an HTTP-OK response that carries a grpc-status header
C1_Witness ==
  /\ ParsedOk
  /\ Len(body[1]) = 4
  /\ resp[1].grpcStatus # None
  /\ result[1].status = "error"

\* a 4-byte body without any grpc-status header: "Empty response (4 bytes)"
C1_WitnessNoHeader ==
  /\ ParsedOk
  /\ Len(body[1]) = 4
  /\ resp[1].grpcStatus = None
  /\ result[1].status = "error"

\* C2: a body of at least 5 bytes whose first byte has the high bit set is
\* trailers-only: status 'error', response null, nothing handed to the
\* message decoder.
C2_HighBitIsTrailersOnly ==
  (ParsedOk /\ Len(body[1]) >= 5 /\ body[1][1] >= 128) =>
    /\ result[1].status = "error"
    /\ result[1].response = None
    /\ decodeArg = None

\* C3: an intact message frame followed by a trailer frame with a non-zero
\* grpc-status gives status 'error', response null and that grpcStatus.
C3_TrailerErrorAfterMessage ==
  (/\ ParsedOk
   /\ MessageIntact(served[1])
   /\ HasTrailer(served[1])
   /\ served[1].trailer.status # <<>>
   /\ DigitsValue(served[1].trailer.status) # 0) =>
    /\ result[1].status = "error"
    /\ result[1].response = None
    /\ result[1].grpcStatus = Some(DigitsValue(served[1].trailer.status))

\* C4: an intact message frame followed by nothing, or by a trailer frame
\* with grpc-status 0, gives status 'success', error null and the decoded
\* payload as response.
C4_SuccessAfterMessage ==
  (/\ ParsedOk
   /\ MessageIntact(served[1])
   /\ \/ ~HasTrailer(served[1])
      \/ served[1].trailer.status = <<48>>) =>
    /\ result[1].status = "success"
    /\ result[1].error = None
    /\ result[1].response = Some(Decode(served[1].msg.payload).msg)

\* C5: a trailers-only response with 'grpc-status: n' and 'grpc-message: m'
\* gives an error with grpcStatus n, an error text that starts with the
\* canonical name of n (CODE_<n> outside 0..16), and the percent-decoded m
\* as grpcMessage.
C5_TrailersOnlyStatusMapping ==
  (/\ ParsedOk
   /\ served[1].kind = "trailers"
   /\ served[1].trailer.status # <<>>
   /\ served[1].trailer.message # NoLine) =>
    LET n == DigitsValue(served[1].trailer.status)
        m == DecodeURIComponent(served[1].trailer.message)
    IN  /\ result[1].status = "error"
        /\ result[1].grpcStatus = Some(n)
        /\ StartsWith(result[1].error[1],
                      IF n \in 0..16 THEN GRPC_STATUS_NAMES[n] ELSE StrCODE \o Decimal(n))
        /\ m.ok => result[1].grpcMessage = Some(m.out)

(***************************************************************************)
(* The frame round trip: a request frame read back by the response decoder *)
(***************************************************************************)
\* payload lengths around the boundaries of the length bytes
FrameLengths == {0, 1, 2, 255, 256, 257, 65535, 65536}
FrameSeeds == {0, 1, 64, 127, 128, 255}

\* a payload of n bytes that differ from place to place
PatternPayload(n, seed) == [i \in 1..n |-> (i + seed) % 256]

\* what the response decoder makes of a buffer up to the slicing of the
\* message: whether it takes the message-frame branch, and the bytes it slices
ExtractMessage(responseBytes) ==
  IF Len(responseBytes) < HeaderLen \/ IsTrailersOnly(responseBytes)
    THEN [isMessage |-> FALSE, msgBytes |-> <<>>, trailer |-> FALSE]
    ELSE [isMessage |-> TRUE, msgBytes |-> MsgBytes(responseBytes),
          trailer |-> HasTrailerFrame(responseBytes)]

InitFrame ==
  /\ IdleCall /\ IdleSynth /\ IdleFields /\ IdleLoad /\ IdleConc /\ IdlePanel
  /\ \E n \in FrameLengths, seed \in FrameSeeds : payload = PatternPayload(n, seed)
  /\ wire = None
  /\ extracted = None

\* the request encoder frames the payload
FrameEncode ==
  /\ wire = None
  /\ wire' = Some(EncodeFrame(payload))
  /\ UNCHANGED <<payload, extracted>>

\* the response decoder reads the frame back
FrameDecode ==
  /\ wire # None
  /\ extracted = None
  /\ extracted' = Some(ExtractMessage(wire[1]))
  /\ UNCHANGED <<payload, wire>>

NextFrame ==
  /\ UNCHANGED <<callVars, synthVars, fieldVars, loadVars, concVars, panelVars>>
  /\ \/ FrameEncode
     \/ FrameDecode

SpecFrame == InitFrame /\ [][NextFrame]_vars

Successors(sch, t) ==
  {m \in DOMAIN sch.messages :
     \E i \in DOMAIN sch.messages[t] :
        LET f == FieldMetaOf(sch, t, sch.messages[t][i])
        IN  f.kind = "message" /\ f.messageType = Some(m)}

RECURSIVE Closure(_, _)
Closure(sch, set) ==
  LET more == set \cup UNION {Successors(sch, t) : t \in set}
  IN  IF more = set THEN set ELSE Closure(sch, more)

\* the message types reached from t through one field or more
Reachable(sch, t) == Closure(sch, Successors(sch, t))

OnCycle(sch, t) == t \in Reachable(sch, t)

\* the message types of the cycles through t
CycleTypes(sch, t) == {u \in Reachable(sch, t) : t \in Reachable(sch, u)}

MaxOf(S) == IF S = {} THEN 0 ELSE CHOOSE x \in S : \A y \in S : y <= x

\* the greatest number of non-empty mappings along a path down from v
RECURSIVE Depth(_)
Depth(v) ==
  IF v.tag = "object"
    THEN (IF DOMAIN v.fields = {} THEN 0
          ELSE 1 + MaxOf({Depth(v.fields[k]) : k \in DOMAIN v.fields}))
  ELSE IF v.tag = "array" THEN MaxOf({Depth(v.items[i]) : i \in DOMAIN v.items})
  ELSE 0

Returned == ret # None /\ ret[1].tag = "object"

NodeRequest == schema = NodeSchema /\ root = <<"Node">> /\ ret # None

\* C7 as stated: for message Node { string id = 1; Node next = 2; } the
\* default request is { id: "", next: {} }.
C7_NodeDefaultAsStated ==
  NodeRequest =>
    ret[1] = VObject(("id" :> VString) @@ ("next" :> EmptyObject))

\* C7 as amended: the default request is { id: "", next: { id: "", next: {} } }:
\* the field next is expanded once, the cycle guard empties it one level down.
C7_NodeDefault ==
  NodeRequest =>
    ret[1] = VObject(("id" :> VString)
                     @@ ("next" :> VObject(("id" :> VString) @@ ("next" :> EmptyObject))))

C7_Witness == NodeRequest /\ calls = 4 /\ ret[1].fields["next"].fields["next"] = EmptyObject

\* the visited set of every call that descends is its caller's set plus the
\* one type the call descends into, which the caller's set lacked
VisitedGrows ==
  \A i \in 2..Len(stack) :
     /\ stack[i].typeName \notin stack[i - 1].visited
     /\ stack[i].visited = stack[i - 1].visited \cup {stack[i].typeName}
     /\ Cardinality(stack[i].visited) = i - 1

\* no branch holds more descending calls than there are message types
BranchBound == Len(stack) - 1 <= Cardinality(DOMAIN schema.messages)

\* C8: createEmptyRequest terminates with a value on every registry: along
\* every branch of the recursion the visited set strictly grows, no branch
\* descends more often than there are message types, and the value is
\* returned in the end.
C8_Terminates == [](VisitedGrows /\ BranchBound) /\ <>Returned

\* a branch of the three-type cycle at its deepest: P, Q, R are visited
C8_Witness ==
  /\ schema = RingSchema
  /\ Len(stack) = 4
  /\ Top.visited = {<<"P">>, <<"Q">>, <<"R">>}
  /\ Top.todo # <<>>
  /\ Head(Top.todo).messageType = Some(<<"P">>)

\* C9 as stated: for a message on a cycle the default value nests at most as
\* many non-empty mappings as the cycle has message types.
C9_DepthWithinCycleAsStated ==
  (ret # None /\ OnCycle(schema, root)) =>
    /\ ret[1].tag = "object"
    /\ Depth(ret[1]) <= Cardinality(CycleTypes(schema, root))

\* C9 as amended: the default value nests at most one more non-empty mapping
\* than there are message types reachable from the message.
C9_DepthBound ==
  ret # None =>
    /\ ret[1].tag = "object"
    /\ Depth(ret[1]) <= Cardinality(Reachable(schema, root)) + 1

\* the three-type cycle reaches the bound: four non-empty mappings
C9_Witness ==
  /\ schema = RingSchema
  /\ root = <<"P">>
  /\ Returned
  /\ OnCycle(schema, root)
  /\ Depth(ret[1]) = 4

(***************************************************************************)
(* Claims about extractFields                                              *)
(***************************************************************************)
\* the kind the classification rule gives a declared field
RuleKind(sch, msgName, field) ==
  LET resolvedType == ResolvedType(sch, msgName, field.type)
  IN  IF field.map THEN "map"
      ELSE IF resolvedType # None /\ resolvedType[1] \in DOMAIN sch.enums THEN "enum"
      ELSE IF resolvedType # None /\ resolvedType[1] \in DOMAIN sch.messages THEN "message"
      ELSE "scalar"

\* C10: extractFields gives every field the kind of the rule: map for a map
\* field whatever its values are, else enum, else message, else scalar.
C10_KindFollowsRule ==
  fieldMetas # None =>
    \A i \in DOMAIN fieldMetas[1] :
       fieldMetas[1][i].kind = RuleKind(schema, root, schema.messages[root][i])

(***************************************************************************)
(* loadProtoFiles: the root is filled with the well-known types, every     *)
(* unit is parsed into it, all types are resolved, the services are        *)
(* collected.  A root holds its declarations by fully-qualified name and   *)
(* the order in which they were added.                                     *)
(***************************************************************************)
EmptyRoot == [messages |-> <<>>, enums |-> <<>>, services |-> <<>>, order |-> <<>>]

MessageDecl(name, fields) == [kind |-> "message", name |-> name, body |-> fields]
EnumDecl(name, values) == [kind |-> "enum", name |-> name, body |-> values]
ServiceDecl(name, methods) == [kind |-> "service", name |-> name, body |-> methods]
Method(name, requestType, responseType) ==
  [name |-> name, requestType |-> requestType, responseType |-> responseType]

Names(rt) == DOMAIN rt.messages \cup DOMAIN rt.enums \cup DOMAIN rt.services

\* Namespace.add of a finished declaration
Add(rt, d) ==
  [messages |-> IF d.kind = "message" THEN rt.messages @@ (d.name :> d.body) ELSE rt.messages,
   enums |-> IF d.kind = "enum" THEN rt.enums @@ (d.name :> d.body) ELSE rt.enums,
   services |-> IF d.kind = "service" THEN rt.services @@ (d.name :> d.body) ELSE rt.services,
   order |-> Append(rt.order, d.name)]

RECURSIVE AddAll(_, _)
AddAll(rt, decls) == IF decls = <<>> THEN rt ELSE AddAll(Add(rt, Head(decls)), Tail(decls))

WK(name) == <<"google", "protobuf", name>>

\* the declarations googleNs.add puts into the root, in the order of the code
WellKnownDecls ==
  <<MessageDecl(WK("Timestamp"), <<Field(1, "seconds", <<"int64">>), Field(2, "nanos", <<"int32">>)>>),
    MessageDecl(WK("Duration"), <<Field(1, "seconds", <<"int64">>), Field(2, "nanos", <<"int32">>)>>),
    MessageDecl(WK("Empty"), <<>>),
    MessageDecl(WK("Any"), <<Field(1, "type_url", <<"string">>), Field(2, "value", <<"bytes">>)>>),
    MessageDecl(WK("StringValue"), <<Field(1, "value", <<"string">>)>>),
    MessageDecl(WK("BytesValue"), <<Field(1, "value", <<"bytes">>)>>),
    MessageDecl(WK("Int32Value"), <<Field(1, "value", <<"int32">>)>>),
    MessageDecl(WK("Int64Value"), <<Field(1, "value", <<"int64">>)>>),
    MessageDecl(WK("UInt32Value"), <<Field(1, "value", <<"uint32">>)>>),
    MessageDecl(WK("UInt64Value"), <<Field(1, "value", <<"uint64">>)>>),
    MessageDecl(WK("FloatValue"), <<Field(1, "value", <<"float">>)>>),
    MessageDecl(WK("DoubleValue"), <<Field(1, "value", <<"double">>)>>),
    MessageDecl(WK("BoolValue"), <<Field(1, "value", <<"bool">>)>>),
    MessageDecl(WK("FieldMask"), <<Repeated(1, "paths", <<"string">>)>>),
    EnumDecl(WK("NullValue"), << <<"NULL_VALUE", 0>> >>),
    MessageDecl(WK("Struct"), <<MapField(1, "fields", <<"Value">>)>>),
    MessageDecl(WK("Value"),
      <<Field(1, "null_value", <<"NullValue">>), Field(2, "number_value", <<"double">>),
        Field(3, "string_value", <<"string">>), Field(4, "bool_value", <<"bool">>),
        Field(5, "struct_value", <<"Struct">>), Field(6, "list_value", <<"ListValue">>)>>),
    MessageDecl(WK("ListValue"), <<Repeated(1, "values", <<"Value">>)>>)>>

\* a root to which ListValue was never added
WellKnownRootNoListValue == AddAll(EmptyRoot, SubSeq(WellKnownDecls, 1, Len(WellKnownDecls) - 1))

\* the root before the first unit is parsed
WellKnownRoot == AddAll(EmptyRoot, WellKnownDecls)

\* protobuf.parse(content, root): the declarations of the unit are added one
\* by one as each is finished; a syntax error or a duplicate name throws and
\* leaves in the root what was added before it
RECURSIVE ParseUnit(_, _)
ParseUnit(rt, decls) ==
  IF decls = <<>> THEN [root |-> rt, threw |-> FALSE]
  ELSE LET d == Head(decls)
       IN  IF d.kind = "malformed" \/ d.name \in Names(rt)
             THEN [root |-> rt, threw |-> TRUE]
             ELSE ParseUnit(Add(rt, d), Tail(decls))

\* root.lookupType(path) from a scope: message types only
LookupType(rt, scope, type) ==
  LET c == Candidates(scope, type)
      hits == {k \in DOMAIN c : c[k] \in DOMAIN rt.messages}
  IN  IF hits = {} THEN None ELSE Some(c[CHOOSE k \in hits : \A j \in hits : k <= j])

Least(S) == CHOOSE k \in S : \A j \in S : k <= j

\* what resolving one declaration throws: the first field whose type is
\* neither a scalar nor a declared name, the first method whose request or
\* response type is not a message
DeclError(rt, name) ==
  IF name \in DOMAIN rt.messages
    THEN LET fields == rt.messages[name]
             bad == {i \in DOMAIN fields :
                       /\ ~IsScalarToken(fields[i].type)
                       /\ ResolvedType(rt, name, fields[i].type) = None}
         IN  IF bad = {} THEN None
             ELSE Some([noSuch |-> fields[Least(bad)].type, inside |-> name])
  ELSE IF name \in DOMAIN rt.services
    THEN LET methods == rt.services[name]
             badReq == {i \in DOMAIN methods : LookupType(rt, name, methods[i].requestType) = None}
             badRes == {i \in DOMAIN methods : LookupType(rt, name, methods[i].responseType) = None}
             bad == badReq \cup badRes
         IN  IF bad = {} THEN None
             ELSE Some([noSuch |-> IF Least(bad) \in badReq THEN methods[Least(bad)].requestType
                                   ELSE methods[Least(bad)].responseType,
                        inside |-> name])
  ELSE None

\* root.resolveAll(): None, or the error of the first declaration that fails
RECURSIVE ResolveAll(_, _)
ResolveAll(rt, i) ==
  IF i > Len(rt.order) THEN None
  ELSE IF DeclError(rt, rt.order[i]) # None THEN DeclError(rt, rt.order[i])
  ELSE ResolveAll(rt, i + 1)

MethodMetaOf(rt, service, method) ==
  LET inputType == LookupType(rt, service, method.requestType)[1]
      outputType == LookupType(rt, service, method.responseType)[1]
  IN  [name |-> method.name,
       inputType |-> inputType,
       outputType |-> outputType,
       inputFields |-> ExtractFields(rt, inputType),
       outputFields |-> ExtractFields(rt, outputType),
       fullPath |-> <<service, method.name>>]

ServiceMetaOf(rt, name) ==
  [fullName |-> name,
   shortName |-> name[Len(name)],
   methods |-> [i \in DOMAIN rt.services[name] |-> MethodMetaOf(rt, name, rt.services[name][i])]]

\* findServices(root): the services in the order they were added
RECURSIVE FindServices(_, _)
FindServices(rt, i) ==
  IF i > Len(rt.order) THEN <<>>
  ELSE IF rt.order[i] \in DOMAIN rt.services
    THEN <<ServiceMetaOf(rt, rt.order[i])>> \o FindServices(rt, i + 1)
  ELSE FindServices(rt, i + 1)

\* resolveAll, findServices and the two returns of loadProtoFiles
Finish(rt) ==
  IF ResolveAll(rt, 1) # None
    THEN [services |-> <<>>, root |-> EmptyRoot, error |-> ResolveAll(rt, 1)]
    ELSE [services |-> FindServices(rt, 1), root |-> rt, error |-> None]

RECURSIVE ParseUnits(_, _)
ParseUnits(rt, units) ==
  IF units = <<>> THEN rt ELSE ParseUnits(ParseUnit(rt, Head(units).content).root, Tail(units))

\* loadProtoFiles as a function of its input
LoadProtoFiles(units) == Finish(ParseUnits(WellKnownRoot, units))

(***************************************************************************)
(* The source units given to loadProtoFiles, all in package app            *)
(***************************************************************************)
App(name) == <<"app", name>>

\* a declaration the parser throws a syntax error at
Malformed == [kind |-> "malformed", name |-> <<>>, body |-> <<>>]

\* message Ping { string text = 1; }
MsgPing == MessageDecl(App("Ping"), <<Field(1, "text", <<"string">>)>>)
\* message Pong { Ping echo = 1; google.protobuf.Timestamp at = 2; }
MsgPong ==
  MessageDecl(App("Pong"), <<Field(1, "echo", <<"Ping">>),
                             Field(2, "at", <<"google", "protobuf", "Timestamp">>)>>)
\* message Front { Back back = 1; }   message Back { string s = 1; }
MsgFront == MessageDecl(App("Front"), <<Field(1, "back", <<"Back">>)>>)
MsgBack == MessageDecl(App("Back"), <<Field(1, "s", <<"string">>)>>)
\* message Orphan { Missing m = 1; string note = 2; }: Missing is declared nowhere
MsgOrphan ==
  MessageDecl(App("Orphan"), <<Field(1, "m", <<"Missing">>), Field(2, "note", <<"string">>)>>)
\* service Echo { rpc Send (Ping) returns (Pong); }
SvcEcho == ServiceDecl(App("Echo"), <<Method("Send", <<"Ping">>, <<"Pong">>)>>)
\* service Clock { rpc Now (google.protobuf.Empty) returns (google.protobuf.Timestamp); }
SvcClock ==
  ServiceDecl(App("Clock"), <<Method("Now", <<"google", "protobuf", "Empty">>,
                                     <<"google", "protobuf", "Timestamp">>)>>)
\* service Audit { rpc Log (Orphan) returns (google.protobuf.Empty); }
SvcAudit ==
  ServiceDecl(App("Audit"), <<Method("Log", <<"Orphan">>, <<"google", "protobuf", "Empty">>)>>)

Unit(filename, content) == [filename |-> filename, content |-> content]

\* well-formed units; a unit that is only a syntax error; a unit cut by a
\* syntax error between a message and the type its field names; a unit cut
\* after a message another unit declares too
Units ==
  {Unit("types.proto", <<MsgPing, MsgPong>>),
   Unit("echo.proto", <<SvcEcho>>),
   Unit("clock.proto", <<SvcClock>>),
   Unit("orphan.proto", <<MsgOrphan, SvcAudit>>),
   Unit("broken.proto", <<Malformed>>),
   Unit("cut.proto", <<MsgFront, Malformed, MsgBack>>),
   Unit("half.proto", <<MsgPing, Malformed, MsgPong>>)}

MaxUnits == 3
Batches == UNION {[1..n -> Units] : n \in 0..MaxUnits}

InitLoad ==
  /\ IdleCall /\ IdleSynth /\ IdleFrame /\ IdleFields /\ IdleConc /\ IdlePanel
  /\ protoContents \in Batches
  /\ lroot = WellKnownRoot
  /\ unitIx = 1
  /\ warnings = <<>>
  /\ loadResult = None

\* one round of the loop over protoContents
LoadParse ==
  /\ loadResult = None
  /\ unitIx <= Len(protoContents)
  /\ LET parsed == ParseUnit(lroot, protoContents[unitIx].content)
     IN  /\ lroot' = parsed.root
         /\ warnings' = IF parsed.threw THEN Append(warnings, protoContents[unitIx].filename)
                        ELSE warnings
  /\ unitIx' = unitIx + 1
  /\ UNCHANGED <<protoContents, loadResult>>

\* after the loop: resolveAll, findServices, return
LoadFinish ==
  /\ loadResult = None
  /\ unitIx > Len(protoContents)
  /\ loadResult' = Some(Finish(lroot))
  /\ UNCHANGED <<protoContents, lroot, unitIx, warnings>>

NextLoad ==
  /\ UNCHANGED <<callVars, synthVars, frameVars, fieldVars, concVars, panelVars>>
  /\ \/ LoadParse
     \/ LoadFinish

SpecLoad == InitLoad /\ [][NextLoad]_vars

(***************************************************************************)
(* Claims about loadProtoFiles                                             *)
(***************************************************************************)
Loaded == loadResult # None

ServiceNames(services) == {services[i].fullName : i \in DOMAIN services}

\* the messages of the merged root with a field whose type resolves to nothing
Unresolved(rt) == {m \in DOMAIN rt.messages : DeclError(rt, m) # None}

\* the message types a service's methods name, and all those behind them
TypesOfService(rt, name) ==
  LET direct == {LookupType(rt, name, rt.services[name][i].requestType) :
                   i \in DOMAIN rt.services[name]}
                \cup {LookupType(rt, name, rt.services[name][i].responseType) :
                        i \in DOMAIN rt.services[name]}
  IN  IF None \in direct THEN {None}
      ELSE Closure(rt, {t[1] : t \in direct})

\* the service needs nothing that is unresolved
Independent(rt, name) ==
  /\ None \notin TypesOfService(rt, name)
  /\ TypesOfService(rt, name) \cap Unresolved(rt) = {}

\* C11: when a field of the merged root names a type that cannot be
\* resolved, the services that do not depend on that type are still returned
\* in LoadResult.services, and the message with that field is still in the
\* returned root with all its fields.
C11_UnresolvedIsPerField ==
  (Loaded /\ Unresolved(lroot) # {}) =>
    /\ \A name \in DOMAIN lroot.services :
         Independent(lroot, name) => name \in ServiceNames(loadResult[1].services)
    /\ \A m \in Unresolved(lroot) :
         /\ m \in DOMAIN loadResult[1].root.messages
         /\ loadResult[1].root.messages[m] = lroot.messages[m]

IsMalformed(unit) == \E i \in DOMAIN unit.content : unit.content[i].kind = "malformed"

WellFormedOf(units) == SelectSeq(units, LAMBDA u : ~IsMalformed(u))

\* C12: a unit that fails to parse does not stop the batch: every unit is
\* gone through, and when the well-formed units load without an error by
\* themselves, the batch with the malformed unit reports no error either and
\* returns every service of the well-formed units.
C12_MalformedUnitIsIsolated ==
  (Loaded /\ \E i \in DOMAIN protoContents : IsMalformed(protoContents[i])) =>
    LET alone == LoadProtoFiles(WellFormedOf(protoContents))
    IN  /\ unitIx = Len(protoContents) + 1
        /\ alone.error = None =>
             /\ loadResult[1].error = None
             /\ ServiceNames(alone.services) \subseteq ServiceNames(loadResult[1].services)

WellKnownMessages ==
  {WK("Timestamp"), WK("Duration"), WK("Empty"), WK("Any"), WK("StringValue"),
   WK("BytesValue"), WK("Int32Value"), WK("Int64Value"), WK("UInt32Value"),
   WK("UInt64Value"), WK("FloatValue"), WK("DoubleValue"), WK("BoolValue"),
   WK("FieldMask"), WK("Struct"), WK("Value"), WK("ListValue")}

\* every well-known type is in the root under google.protobuf and every
\* field type of it is a scalar or resolves to a well-known type
WellKnownPresent(rt) ==
  /\ WellKnownMessages \subseteq DOMAIN rt.messages
  /\ WK("NullValue") \in DOMAIN rt.enums
  /\ \A m \in WellKnownMessages : \A i \in DOMAIN rt.messages[m] :
       LET type == rt.messages[m][i].type
       IN  \/ IsScalarToken(type)
           \/ /\ ResolvedType(rt, m, type) # None
              /\ ResolvedType(rt, m, type)[1] \in WellKnownMessages \cup {WK("NullValue")}

\* C13: after a load of zero units, and after every load that returns
\* without an error, the returned root holds every well-known type under
\* google.protobuf and all their field types resolve.
C13_WellKnownResolvable ==
  Loaded =>
    /\ protoContents = <<>> => loadResult[1].error = None
    /\ loadResult[1].error = None => WellKnownPresent(loadResult[1].root)

\* the load of zero units has returned, Value.list_value bound to ListValue
C13_Witness ==
  /\ Loaded
  /\ protoContents = <<>>
  /\ loadResult[1].services = <<>>
  /\ ResolvedType(loadResult[1].root, WK("Value"), <<"ListValue">>) = Some(WK("ListValue"))

\* a load of two valid units has returned with its service
C13_WitnessUnits ==
  /\ Loaded
  /\ Len(protoContents) = 2
  /\ loadResult[1].error = None
  /\ ServiceNames(loadResult[1].services) = {App("Echo")}
  /\ WellKnownPresent(loadResult[1].root)

(***************************************************************************)
(* Further claims about executeCall                                        *)
(***************************************************************************)
\* the request value does not fit the input message: code is not an integer
Unfit(req) == req.hasCode /\ ~req.isInt

\* C14: the request is validated before anything is encoded or sent: for a
\* value that does not fit the input message the call returns an error that
\* names the validation failure, no frame is built and no HTTP request goes
\* out; a frame is built and sent only for a value that fits.
C14_ValidationBeforeSend ==
  request # None =>
    /\ Unfit(request[1]) =>
         /\ pc = "done"
         /\ result # None
         /\ result[1].status = "error"
         /\ StartsWith(result[1].error[1], StrInvalidRequest)
         /\ frame = None
         /\ resp = None
         /\ body = None
    /\ (frame # None \/ resp # None) => ~Unfit(request[1])

\* a call with {code: "a"} has returned without a frame
C14_Witness ==
  /\ pc = "done"
  /\ Unfit(request[1])
  /\ frame = None
  /\ result[1].error = Some(StrInvalidRequest \o ErrIntExpected)

\* the body opens with a message frame whose header declares more payload
\* bytes than the body holds (a length with the top bit set declares 2^31
\* bytes or more)
Truncated(responseBytes) ==
  /\ Len(responseBytes) >= HeaderLen
  /\ responseBytes[1] < 128
  /\ \/ responseBytes[2] >= 128
     \/ MsgLen(responseBytes) > Len(responseBytes) - HeaderLen

\* the call met a failure: the request does not fit, the network failed,
\* the HTTP status is not OK, the frame is malformed (shorter than a header,
\* or truncated), a grpc-message that was read is malformed percent-encoding,
\* or the payload handed to the decoder does not decode
Failed ==
  \/ Unfit(request[1])
  \/ resp = None
  \/ ~resp[1].ok
  \/ body = None
  \/ Len(body[1]) < HeaderLen
  \/ Truncated(body[1])
  \/ (IsTrailersOnly(body[1]) /\ ~ParseGrpcTrailers(TextDecode(Slice(body[1], HeaderLen, Len(body[1])))).ok)
  \/ (~IsTrailersOnly(body[1]) /\ HasTrailerFrame(body[1]) /\ ~ParseGrpcTrailers(TrailerText(body[1])).ok)
  \/ (decodeArg # None /\ ~Decode(decodeArg[1]).ok)

\* C15: a call that has ended has returned a CallResult (the promise is
\* never rejected), and every failure inside the call is returned with
\* status 'error'.
C15_FailuresAreResults ==
  pc = "done" =>
    /\ result # None
    /\ result[1].status \in {"success", "error"}
    /\ Failed => result[1].status = "error"

\* the grpc-status header of the response is a number other than zero
HeaderStatusNonZero ==
  /\ resp[1].grpcStatus # None
  /\ resp[1].grpcStatus[1] # <<>>
  /\ \A i \in DOMAIN resp[1].grpcStatus[1] : IsDigit(resp[1].grpcStatus[1][i])
  /\ DigitsValue(resp[1].grpcStatus[1]) # 0

\* C16: an HTTP-OK response whose grpc-status header is non-zero gives
\* status 'error' with grpcStatus equal to the header value, whatever the
\* body holds.
C16_HeaderStatusIsFatal ==
  (ParsedOk /\ HeaderStatusNonZero) =>
    /\ result[1].status = "error"
    /\ result[1].grpcStatus = Some(DigitsValue(resp[1].grpcStatus[1]))

\* the length four header bytes stand for when read as an unsigned
\* big-endian number, for a first byte below 0x80
BigEndianValue(bytes, at) ==
  bytes[at + 2] * 16777216 + bytes[at + 3] * 65536 + bytes[at + 4] * 256 + bytes[at + 5]

\* C19: the length the decoder reads from the header of a message frame is
\* the unsigned big-endian value of the four bytes and is never negative,
\* also when the first of them is 0x80 or more; the same for the length of
\* the trailer frame that follows.
C19_LengthIsUnsigned ==
  (ParsedOk /\ Len(body[1]) >= HeaderLen /\ ~IsTrailersOnly(body[1])) =>
    /\ MsgLen(body[1]) >= 0
    /\ body[1][2] < 128 => MsgLen(body[1]) = BigEndianValue(body[1], 0)
    /\ HasTrailerFrame(body[1]) => ReadLength(body[1], TrailerStart(body[1])) >= 0

\* C20: a message frame whose header declares more bytes than the body
\* holds is a protocol error: the shorter slice is not decoded and the call
\* does not return 'success'.
C20_TruncatedFrameIsError ==
  (ParsedOk /\ Truncated(body[1])) =>
    /\ result[1].status = "error"
    /\ decodeArg = None

(***************************************************************************)
(* Concurrent calls: every invocation of executeCall has its own locals;   *)
(* the invocations interleave at their awaits (fetch, reading the body).   *)
(* A caller may trigger its timeout or cancellation token while its call   *)
(* is in flight.                                                           *)
(***************************************************************************)
NumCalls == 2
CallIds == 1..NumCalls

\* the message types the method called hands to verify, encode and decode
CallSchema ==
  [messages |-> (<<"Query">> :> <<Field(1, "code", <<"int32">>)>>)
             @@ (<<"Reply">> :> <<Field(1, "code", <<"int32">>)>>),
   enums |-> NoEnums]

\* the locals of an invocation that has not begun
NewInvocation ==
  [pc |-> "idle", request |-> None, frame |-> None, resp |-> None,
   body |-> None, thrown |-> None, result |-> None]

\* the answers of the network in the concurrent runs
ConcResponses ==
  {[ok |-> TRUE, status |-> 200, grpcStatus |-> None, grpcMessage |-> None],
   [ok |-> TRUE, status |-> 200, grpcStatus |-> Some(<<53>>), grpcMessage |-> None],
   [ok |-> FALSE, status |-> 503, grpcStatus |-> None, grpcMessage |-> None]}

ConcBodies ==
  {<<>>,
   MessageFrameBytes([flag |-> 0, payload |-> <<8, 5>>, declared |-> 2]),
   TrailerFrameBytes([flag |-> 128, status |-> <<53>>, message |-> NoLine, statusFirst |-> TRUE]),
   MessageFrameBytes([flag |-> 0, payload |-> <<8, 172, 2>>, declared |-> 3])
     \o TrailerFrameBytes([flag |-> 128, status |-> <<48>>, message |-> NoLine, statusFirst |-> TRUE])}

ConcErrors == {StrFailedToFetch}

\* headers that one invocation's response leaves for the others to read:
\* those of the first invocation that holds a response
HeadersShared(inv, c) ==
  LET first == CHOOSE k \in CallIds :
                 /\ inv[k].resp # None
                 /\ \A j \in CallIds : inv[j].resp # None => k <= j
  IN  inv[first].resp[1]

\* headerGrpcStatus, headerGrpcMessage: read from the invocation's own response
HeadersOf(inv, c) == inv[c].resp[1]

InitConc ==
  /\ IdleCall /\ IdleFrame /\ IdleFields /\ IdleLoad /\ IdlePanel
  /\ schema = CallSchema
  /\ root = ""
  /\ stack = <<>>
  /\ ret = None
  /\ calls = 0
  /\ invocations = [c \in CallIds |-> NewInvocation]
  /\ tokens = {}

\* executeCall up to the await of fetch
ConcCall(c) ==
  /\ invocations[c].pc = "idle"
  /\ \E req \in Requests :
       invocations' =
         [invocations EXCEPT ![c] =
            IF Verify(req) # None
              THEN [@ EXCEPT !.request = Some(req), !.pc = "done",
                             !.result = Some(ErrorResult(StrInvalidRequest \o Verify(req)[1]))]
              ELSE [@ EXCEPT !.request = Some(req), !.pc = "fetch",
                             !.frame = Some(EncodeFrame(Encode(req)))]]
  /\ UNCHANGED tokens

ConcFetchResolve(c) ==
  /\ invocations[c].pc = "fetch"
  /\ \E r \in ConcResponses :
       invocations' = [invocations EXCEPT ![c].resp = Some(r), ![c].pc = "body"]
  /\ UNCHANGED tokens

ConcFetchReject(c) ==
  /\ invocations[c].pc = "fetch"
  /\ \E errorMessage \in ConcErrors :
       invocations' = [invocations EXCEPT ![c].thrown = Some(errorMessage), ![c].pc = "done",
                                          ![c].result = Some(CatchResult(errorMessage))]
  /\ UNCHANGED tokens

ConcReadErrorText(c) ==
  /\ invocations[c].pc = "body"
  /\ ~invocations[c].resp[1].ok
  /\ \E text \in ErrorTexts :
       invocations' =
         [invocations EXCEPT ![c].body = Some(text), ![c].pc = "done",
            ![c].result = Some(ErrorResult(StrHTTP \o Decimal(invocations[c].resp[1].status)
                                             \o StrColonSp \o TextDecode(text)))]
  /\ UNCHANGED tokens

ConcReadArrayBuffer(c) ==
  /\ invocations[c].pc = "body"
  /\ invocations[c].resp[1].ok
  /\ \E b \in ConcBodies :
       invocations' =
         [invocations EXCEPT ![c].body = Some(b), ![c].pc = "done",
            ![c].result = Some(ParseResponse(b, HeadersOf(invocations, c).grpcStatus,
                                             HeadersOf(invocations, c).grpcMessage).result)]
  /\ UNCHANGED tokens

ConcReadReject(c) ==
  /\ invocations[c].pc = "body"
  /\ \E errorMessage \in ConcErrors :
       invocations' = [invocations EXCEPT ![c].thrown = Some(errorMessage), ![c].pc = "done",
                                          ![c].result = Some(CatchResult(errorMessage))]
  /\ UNCHANGED tokens

\* the caller of c triggers its timeout or cancellation token while the call
\* is in flight; executeCall takes no such token and fetch is given no
\* signal, so nothing in the call changes
Trigger(c) ==
  /\ invocations[c].pc \in {"fetch", "body"}
  /\ c \notin tokens
  /\ tokens' = tokens \cup {c}
  /\ UNCHANGED invocations

NextConc ==
  /\ UNCHANGED <<callVars, synthVars, frameVars, fieldVars, loadVars, panelVars>>
  /\ \E c \in CallIds :
       \/ ConcCall(c)
       \/ ConcFetchResolve(c)
       \/ ConcFetchReject(c)
       \/ ConcReadErrorText(c)
       \/ ConcReadArrayBuffer(c)
       \/ ConcReadReject(c)
       \/ Trigger(c)

SpecConc == InitConc /\ [][NextConc]_vars

(***************************************************************************)
(* Claims about calls in flight                                            *)
(***************************************************************************)
\* C17: when the caller's token is triggered while the response is in
\* flight, the call discards the response and ends with a cancellation
\* error: no call whose token was triggered returns 'success' or an error
\* read from the response.
C17_CancellationDiscardsResponse ==
  \A c \in tokens :
     invocations[c].pc = "done" =>
       /\ invocations[c].result[1].status = "error"
       /\ invocations[c].body = None

\* the result of the invocation had it run alone with its request and the
\* same answers of the network
RunAlone(l) ==
  IF Verify(l.request[1]) # None
    THEN ErrorResult(StrInvalidRequest \o Verify(l.request[1])[1])
  ELSE IF l.thrown # None THEN CatchResult(l.thrown[1])
  ELSE IF ~l.resp[1].ok
    THEN ErrorResult(StrHTTP \o Decimal(l.resp[1].status) \o StrColonSp \o TextDecode(l.body[1]))
  ELSE ParseResponse(l.body[1], l.resp[1].grpcStatus, l.resp[1].grpcMessage).result

PathTypes(i) == {stack[j].typeName : j \in 2..i}

PairRequest == schema = PairSchema /\ root = <<"Pair">> /\ ret # None

LeafDefault == VObject("v" :> VString)

\* C21: the visited set of every call holds the types of the calls that
\* enclose it and nothing a sibling call added, so for
\* Pair { Leaf left; Leaf right; Box box } with Box { Leaf leaf } the fields
\* left, right and box.leaf are all the full default { v: "" } and none of
\* them is cut to {}.
C21_GuardIsPerBranch ==
  /\ \A i \in 1..Len(stack) : stack[i].visited = PathTypes(i)
  /\ PairRequest =>
       /\ ret[1].fields["left"] = LeafDefault
       /\ ret[1].fields["right"] = LeafDefault
       /\ ret[1].fields["box"] = VObject("leaf" :> LeafDefault)

\* the request of Pair was built: Leaf was expanded three times, twice as a
\* sibling and once under Box
C21_Witness ==
  /\ PairRequest
  /\ calls = 7
  /\ ret[1].fields["right"] = ret[1].fields["left"]
  /\ ret[1].fields["box"].fields["leaf"] = ret[1].fields["left"]
  /\ ret[1].fields["left"] # EmptyObject

(***************************************************************************)
(* The CallResult of executeCall                                           *)
(***************************************************************************)
\* the fields of a CallResult agree with its status, and a 'success' carries
\* what the decoder made of the bytes it was handed
FieldsConsistent(r) ==
  /\ r.status \in {"success", "error"}
  /\ r.status = "success" <=> r.error = None
  /\ r.status = "error" => (r.response = None /\ r.error # None)
  /\ (r.grpcStatus # None \/ r.grpcMessage # None) => r.status = "error"

\* the decoder has run, and the result carries what it returned
Decoded(r) ==
  /\ decodeArg # None
  /\ Decode(decodeArg[1]).ok
  /\ r.response = Some(Decode(decodeArg[1]).msg)

\* the body opens with a whole message frame: the trailer bit of the flags
\* byte is clear and the bytes the header declares are all there
OpensWithMessageFrame(responseBytes) ==
  /\ Len(responseBytes) >= HeaderLen
  /\ responseBytes[1] < 128
  /\ ~Truncated(responseBytes)

\* every ended call returned a result whose fields agree with its status
ResultFieldsAgree ==
  pc = "done" =>
    /\ result # None
    /\ FieldsConsistent(result[1])
    /\ result[1].status = "success" => Decoded(result[1])

\* C22: every CallResult is consistent: 'success' exactly when error is
\* null; 'error' means response null and error set; grpcStatus and
\* grpcMessage only on 'error'; and a 'success' comes only after the decoder
\* has run on the payload of a message frame.
C22_ResultConsistent ==
  pc = "done" =>
    /\ result # None
    /\ FieldsConsistent(result[1])
    /\ result[1].status = "success" =>
         /\ Decoded(result[1])
         /\ body # None
         /\ OpensWithMessageFrame(body[1])
         /\ decodeArg = Some(Slice(body[1], HeaderLen, HeaderLen + MsgLen(body[1])))

\* a 'success' after the decoder was handed the empty payload of a frame
\* whose flags byte has the trailer bit set
C22_SuccessOnTrailerFrame ==
  /\ pc = "done"
  /\ body = Some(<<129, 0, 0, 0, 0>>)
  /\ decodeArg = Some(<<>>)
  /\ result[1].status = "success"

(***************************************************************************)
(* The method panel (src/unnamed/part_000): MethodPanel and the method     *)
(* cache of App.  A handler, the render it causes and the effect of that   *)
(* render are one step: React runs them before it takes the next event.    *)
(* The method shown is one whose input and output are Query and Reply.     *)
(***************************************************************************)
\* white space of the JSON grammar
IsJsonSpace(c) == c \in {9, 10, 13, 32}

RECURSIVE SkipJsonSpace(_, _)
SkipJsonSpace(s, i) == IF i <= Len(s) /\ IsJsonSpace(s[i]) THEN SkipJsonSpace(s, i + 1) ELSE i

\* the index after a run of characters that may stand inside a JSON string
\* without an escape
RECURSIVE SkipStringChars(_, _)
SkipStringChars(s, i) ==
  IF i <= Len(s) /\ s[i] \notin {34, 92} /\ s[i] >= 32 THEN SkipStringChars(s, i + 1) ELSE i

KeyCode == <<34, 99, 111, 100, 101, 34>>  \* "code" with its quotes

\* s holds the text t at index i
HasAt(s, i, t) == i + Len(t) - 1 <= Len(s) /\ SubSeq(s, i, i + Len(t) - 1) = t

\* the text ends, white space aside, at index i
EndsAt(s, i) == SkipJsonSpace(s, i) = Len(s) + 1

\* JSON.parse(text) for the objects a Query is written as: {} or
\* {"code": <digits>} or {"code": "<characters>"}; None stands for the
\* SyntaxError thrown
JsonParse(text) ==
  LET open == SkipJsonSpace(text, 1)
      key == SkipJsonSpace(text, open + 1)
      colon == SkipJsonSpace(text, key + Len(KeyCode))
      val == SkipJsonSpace(text, colon + 1)
      digitsEnd == SkipDigits(text, val)
      stringEnd == SkipStringChars(text, val + 1)
  IN  IF ~HasAt(text, open, <<123>>) THEN None
      ELSE IF HasAt(text, key, <<125>>)
        THEN (IF EndsAt(text, key + 1)
                THEN Some([hasCode |-> FALSE, isInt |-> TRUE, code |-> 0]) ELSE None)
      ELSE IF ~(HasAt(text, key, KeyCode) /\ HasAt(text, colon, <<58>>)) THEN None
      ELSE IF digitsEnd > val
        THEN (IF HasAt(text, SkipJsonSpace(text, digitsEnd), <<125>>)
                   /\ EndsAt(text, SkipJsonSpace(text, digitsEnd) + 1)
                THEN Some([hasCode |-> TRUE, isInt |-> TRUE,
                           code |-> DigitsValue(SubSeq(text, val, digitsEnd - 1))])
                ELSE None)
      ELSE IF HasAt(text, val, <<34>>) /\ HasAt(text, stringEnd, <<34>>)
        THEN (IF HasAt(text, SkipJsonSpace(text, stringEnd + 1), <<125>>)
                   /\ EndsAt(text, SkipJsonSpace(text, stringEnd + 1) + 1)
                THEN Some([hasCode |-> TRUE, isInt |-> FALSE, code |-> 0])
                ELSE None)
      ELSE None

\* jsonStringify(obj) of a Query with an integer code: JSON.stringify with an
\* indentation of two spaces
JsonStringify(obj) ==
  IF obj.hasCode
    THEN <<123, 10, 32, 32>> \o KeyCode \o <<58, 32>> \o Decimal(obj.code) \o <<10, 125>>
    ELSE <<123, 125>>

\* createEmptyRequest(method) for Query { int32 code = 1 }: { code: 0 }
EmptyRequest == [hasCode |-> TRUE, isInt |-> TRUE, code |-> 0]

\* const defaultRequest = jsonStringify(createEmptyRequest(method))
DefaultRequest == JsonStringify(EmptyRequest)

\* the message of the SyntaxError of JSON.parse
StrUnexpectedEnd == <<85, 110, 101, 120, 112, 101, 99, 116, 101, 100, 32, 101, 110, 100, 32, 111, 102, 32, 74, 83, 79, 78, 32, 105, 110, 112, 117, 116>>  \* "Unexpected end of JSON input"

\* interface MethodCache
MethodCache(req, defaultRequest, res) ==
  [request |-> req, defaultRequest |-> defaultRequest, result |-> res]

\* getMethodKey(service, method) of the one method of the model
MethodKey == "echo.proto:app.Echo.Ask"

\* next.set(key, { request, defaultRequest, result }) on a copy of prev
HandleCacheUpdate(prev, key, req, defaultRequest, res) ==
  (key :> MethodCache(req, defaultRequest, res)) @@ prev

\* methodCache.get(key): the prop `cache` of the panel
CacheOf(cache, key) == IF key \in DOMAIN cache THEN Some(cache[key]) ELSE None

\* the effect of MethodPanel on [method, cache, onCacheUpdate, defaultRequest],
\* run after a render in which the cache is `cache`: the text and the
\* result it sets, and the cache after its onCacheUpdate
PanelEffect(cache, key) ==
  LET entry == CacheOf(cache, key)
      reset == [jsonText |-> DefaultRequest, result |-> None,
                cache |-> HandleCacheUpdate(cache, key, DefaultRequest, DefaultRequest, None)]
  IN  IF entry # None
        THEN IF entry[1].defaultRequest # DefaultRequest /\ entry[1].request = entry[1].defaultRequest
               THEN reset
               ELSE [jsonText |-> entry[1].request, result |-> entry[1].result, cache |-> cache]
        ELSE reset

\* the render after the handlers of one event have written `cache`, and the
\* effect of that render
Rendered(cache) ==
  \E e \in {PanelEffect(cache, selectedMethod[1])} :
     /\ jsonText' = e.jsonText
     /\ panelResult' = e.result
     /\ methodCache' = e.cache

\* executeCall(service, method, reqData, baseUrl, headers) when the server
\* answers HTTP 200 with the body responseBytes
ExecuteCall(reqData, responseBytes) ==
  IF Verify(reqData) # None
    THEN ErrorResult(StrInvalidRequest \o Verify(reqData)[1])
    ELSE ParseResponse(responseBytes, None, None).result

\* the texts the user types into the request editor
TextQuery300 == <<123, 34, 99, 111, 100, 101, 34, 58, 32, 51, 48, 48, 125>>  \* {"code": 300}
TextQuery7 == <<123, 34, 99, 111, 100, 101, 34, 58, 55, 125>>  \* {"code":7}
TextCodeA == <<123, 34, 99, 111, 100, 101, 34, 58, 32, 34, 97, 34, 125>>  \* {"code": "a"}
TextOpen == <<123>>  \* {
TextNoFields == <<123, 125>>  \* {}
EditTexts == {TextQuery300, TextQuery7, TextCodeA, TextOpen, TextNoFields, DefaultRequest}

\* what localStorage held for the method when the App was mounted: nothing,
\* an edited request, or the untouched default of an older proto
PersistedCaches ==
  {<<>>,
   MethodKey :> MethodCache(TextQuery300, DefaultRequest, None),
   MethodKey :> MethodCache(TextNoFields, TextNoFields, None)}

\* the bodies the server answers with: a message frame of Reply { code: 5 },
\* and nothing
PanelBodies == {<<0, 0, 0, 0, 2, 8, 5>>, <<>>}

InitPanel ==
  /\ IdleCall /\ IdleSynth /\ IdleFrame /\ IdleFields /\ IdleLoad /\ IdleConc
  /\ selectedMethod = None
  /\ methodCache \in PersistedCaches
  /\ jsonText = <<>>
  /\ panelResult = None
  /\ loading = FALSE
  /\ executing = None

\* the user picks the method: MethodPanel is mounted with its initial state
\* and its effect runs
SelectMethod ==
  /\ selectedMethod = None
  /\ selectedMethod' = Some(MethodKey)
  /\ \E e \in {PanelEffect(methodCache, MethodKey)} :
       /\ jsonText' = e.jsonText
       /\ panelResult' = e.result
       /\ methodCache' = e.cache
  /\ UNCHANGED <<loading, executing>>

\* handleJsonChange(value): the user edits the request text
HandleJsonChange ==
  /\ selectedMethod # None
  /\ \E value \in EditTexts :
       Rendered(HandleCacheUpdate(methodCache, selectedMethod[1], value, DefaultRequest, panelResult))
  /\ UNCHANGED <<selectedMethod, loading, executing>>

\* handleExecute up to its await, on a click of the button (disabled while
\* loading).  A text that does not parse goes to the catch block, and a
\* request that executeCall rejects before fetch resolves the await before
\* any other event; otherwise the closure waits for the network with the
\* jsonText of the render it was made in.
HandleExecute ==
  /\ selectedMethod # None
  /\ ~loading
  /\ \E reqData \in {JsonParse(jsonText)}, errorResult \in {ErrorResult(StrUnexpectedEnd)} :
         IF reqData = None
           THEN /\ Rendered(HandleCacheUpdate(methodCache, selectedMethod[1], jsonText,
                                              DefaultRequest, Some(errorResult)))
                /\ UNCHANGED <<loading, executing>>
         ELSE IF Verify(reqData[1]) # None
           THEN /\ Rendered(HandleCacheUpdate(methodCache, selectedMethod[1], jsonText,
                                              DefaultRequest, Some(ExecuteCall(reqData[1], <<>>))))
                /\ UNCHANGED <<loading, executing>>
         ELSE /\ loading' = TRUE
              /\ executing' = Some([jsonText |-> jsonText, reqData |-> reqData[1]])
              /\ UNCHANGED <<jsonText, panelResult, methodCache>>
  /\ UNCHANGED selectedMethod

\* handleExecute after its await: executeCall has returned res
ExecuteReturn ==
  /\ executing # None
  /\ \E responseBytes \in PanelBodies :
       \E res \in {ExecuteCall(executing[1].reqData, responseBytes)} :
          Rendered(HandleCacheUpdate(methodCache, selectedMethod[1], executing[1].jsonText,
                                     DefaultRequest, Some(res)))
  /\ loading' = FALSE
  /\ executing' = None
  /\ UNCHANGED selectedMethod

NextPanel ==
  /\ UNCHANGED <<callVars, synthVars, frameVars, fieldVars, loadVars, concVars>>
  /\ \/ SelectMethod
     \/ HandleJsonChange
     \/ HandleExecute
     \/ ExecuteReturn

SpecPanel == InitPanel /\ [][NextPanel]_vars

\* C23: an edit made while a call is in flight is not lost: when the call
\* completes, the displayed text and the cached request of the method are
\* the text the editor held just before, the user's latest edit, not the
\* text captured when Execute was clicked.
C23_EditSurvivesCall ==
  [][(executing # None /\ executing' = None) =>
       /\ jsonText' = jsonText
       /\ methodCache'[selectedMethod[1]].request = jsonText]_vars

====
